---- MODULE Spec2Model ----
(***************************************************************************)
(* pi-acp: the bridge between an ACP client and a `pi --mode rpc` child.   *)
(*                                                                         *)
(* PiRpcProcess (src/src/pi-rpc/process.ts) is the channel to the child:   *)
(* request() registers a pending call under a fresh id and writes one      *)
(* line, the stdout line handler settles the matching call or hands the    *)
(* line to the event handlers, the exit handler rejects what is pending.   *)
(* PiAcpSession (src/src/acp/session.ts) runs one turn at a time on top of *)
(* it, queues further prompts, and translates pi events into session       *)
(* updates that are delivered through a promise chain (lastEmit).          *)
(*                                                                         *)
(* Node runs every handler to completion; what interleaves are handlers    *)
(* and promise continuations.  Each action below is one handler or one     *)
(* continuation.  Texts are sequences of string tokens.                    *)
(***************************************************************************)
EXTENDS Integers, Sequences, FiniteSets, TLC

\* ------------------------------------------------------------------ bounds
MaxPrompts     == 3  \* prompt() calls per behaviour
MaxCancels     == 1  \* cancel() calls per behaviour
MaxQueries     == 2  \* getState() calls per behaviour
MaxChildEvents == 3  \* stdout lines read, write errors and exits per behaviour
MaxToolEvents  == 4  \* tool and message events per behaviour of the translator
MaxStreamEvents == 4 \* events per behaviour of the message stream
MaxSubs        == 3  \* onEvent() calls per behaviour, after the session's own
MaxUnsubCalls  == 2  \* calls of one unsubscribe function
MaxSubEvents   == 2  \* lines read per behaviour of the subscriptions
MaxTwinEvents  == 3  \* events per behaviour of the two runs
MaxToolTurnEvents == 3 \* events per behaviour of tool calls within turns
MaxAbortCancels == 2 \* cancel() calls per behaviour of repeated cancellation
MaxAbortEvents == 2  \* child events per behaviour of repeated cancellation
MaxAgentPrompts == 2 \* PiAcpAgent.prompt() calls per behaviour
MaxAgentEvents == 3  \* child events per behaviour of the agent's prompt
MaxCreates     == 3  \* SessionManager.create() calls per behaviour
MaxPeerPrompts == 2  \* prompt() calls on the second session
MaxPeerOps     == 3  \* calls and events of the second session
MaxPairPrompts == 1  \* prompt() calls on the first session while a second one exists
MaxPairEvents  == 2  \* child events of the first session while a second one exists

\* ------------------------------------------------------------ small helpers
NoTurn == 0
NoId   == 0          \* a response line without a (string) id
UnknownId == -1      \* an id string no request() of this channel generated
Null   == "null"     \* JS null / undefined, as printed in a template string

Range(s) == {s[i] : i \in 1..Len(s)}

\* String(n) for the small numbers that occur in texts.
Str(n) == IF n \in 0..9 THEN <<"0", "1", "2", "3", "4", "5", "6", "7", "8", "9">>[n + 1]
          ELSE "many"

\* a tool result: absent, or the texts of its content blocks
NoResult  == [present |-> FALSE, texts |-> <<>>]
Result(texts) == [present |-> TRUE, texts |-> texts]

\* ---------------------------------------------------------- session updates
\* One shape for every SessionUpdate: the fields an update does not carry
\* are Null / <<>> / -1.
Update(su, id, title, kind, st, rawIn, content, rawOut, txt, depth, running) ==
  [sessionUpdate |-> su, toolCallId |-> id, title |-> title, kind |-> kind, status |-> st,
   rawInput |-> rawIn, content |-> content, rawOutput |-> rawOut, text |-> txt,
   queueDepth |-> depth, running |-> running]

Chunk(txt) ==
  Update("agent_message_chunk", Null, Null, Null, Null, Null, <<>>, NoResult, txt, -1, FALSE)

Info(depth, running) ==
  Update("session_info_update", Null, Null, Null, Null, Null, <<>>, NoResult, <<>>, depth, running)

ToolCall(id, title, kind, st, rawIn) ==
  Update("tool_call", id, title, kind, st, rawIn, <<>>, NoResult, <<>>, -1, FALSE)

ToolCallUpdate(id, st, rawIn, content, rawOut) ==
  Update("tool_call_update", id, Null, Null, st, rawIn, content, rawOut, <<>>, -1, FALSE)

QueuedText(pos) == <<"Queued message (position ", Str(pos), ").">>

StartingText(remaining) == <<"Starting queued message. (", Str(remaining), " remaining)">>

ClearedText == <<"Cleared queued prompts.">>

\* ------------------------------------------------------------------- inputs
StartupInfos == {Null, "pi v1"}
Deltas    == {"Hi", "!", Null}               \* Null: the delta is not a string
Datas     == {Null, "state"}
\* error texts a response can carry (<<>>: the field is absent)
ErrTexts  == {<<>>, <<"rate", " ", "limit">>, <<"No", " ", "API", " ", "key">>}
ExitCodes == {<<"1", Null>>, <<Null, "SIGTERM">>}
ToolIds   == {"t1", "t2"}
Missing   == "ENOENT"                       \* the file does not exist
Contents  == {Missing, "before\n", "after\n"}
Absent    == "absent"                       \* Map.get(id) === undefined
NoSnapshot == [path |-> Null, oldText |-> Null]
\* handler functions: the session's (ev => this.handlePiEvent(ev)) and two others
SessionHandler == "handlePiEvent"
OtherHandlers == {"h1", "h2"}
Handlers == {SessionHandler} \cup OtherHandlers

VARIABLES
  \* PiAcpSession
  startupInfo, startupInfoSent, cancelRequested, pendingTurn, turnQueue,
  inAgentLoop, currentToolCalls, editSnapshots, updates, delivered, accepted, conts,
  \* the futures returned by prompt(), by turn number
  turnState,
  \* PiRpcProcess; subs: the unsubscribe functions onEvent() has returned
  pending, calls, failq, exited, eventHandlers, subs,
  \* the file the edit tool works on
  file,
  \* history: child events handled, cancel() calls, turns drained by a cancel(),
  \* what resolved each turn, tool calls whose tool_execution_start was handled
  nChildEvents, nCancels, drained, resolvedBy, started,
  \* the string deltas of the text_delta events handled, in order
  deltaLog,
  \* the lines each handler function has been called with, by their number in
  \* the order of reading, one entry per call
  got,
  \* the turn that was pending when the child exited
  atExit,
  \* the session of the run that gets the same calls and events except cancel()
  twin,
  \* a second session of the same SessionManager, with its channel
  peer,
  \* SessionManager: the sessions map, and what each create() call returned or threw
  manager,
  \* PiAcpAgent.prompt: the calls made, each with its position and its outcome
  agentPrompts

turnVars == <<cancelRequested, pendingTurn, turnQueue, inAgentLoop, turnState>>
toolVars == <<currentToolCalls, editSnapshots>>
emitVars == <<updates, delivered, accepted, conts>>
infoVars == <<startupInfo, startupInfoSent>>
sessionVars == <<infoVars, turnVars, toolVars, emitVars>>
subVars == <<eventHandlers, subs>>
procVars == <<pending, calls, failq, exited, subVars>>
histVars == <<nChildEvents, nCancels, drained, resolvedBy, started, deltaLog, got, atExit>>
vars == <<sessionVars, procVars, file, histVars, twin, peer, manager, agentPrompts>>

Turns == 1..MaxPrompts
StopReasons == {"end_turn", "cancelled", "error"}
\* "none": not yet requested; "queued"/"active": unsettled; a stop reason: resolved;
\* "auth_required": rejected with RequestError.authRequired
TurnStates == {"none", "queued", "active", "auth_required"} \cup StopReasons

nPrompts == Cardinality({t \in Turns : turnState[t] # "none"})

Unsettled(ts, t) == t # NoTurn /\ ts[t] \in {"queued", "active"}

\* A promise settles once: resolve/reject after that are no-ops.
Settle(ts, t, r) == IF Unsettled(ts, t) THEN [ts EXCEPT ![t] = r] ELSE ts

\* history: what settled turn t
Noted(rb, ts, t, by) == IF Unsettled(ts, t) THEN [rb EXCEPT ![t] = by] ELSE rb

\* --------------------------------------------------------- PiRpcProcess
NoMsg == [success |-> FALSE, data |-> Null, error |-> <<>>, present |-> FALSE]

NewCall(cmd, t) ==
  [cmd |-> cmd, turn |-> t, st |-> "pending", msg |-> NoMsg, err |-> <<>>]

\* (variant: request() does not enter the call into the pending map)
RequestedNotRegistered(cs, pd, cmd, t) ==
  [calls |-> Append(cs, NewCall(cmd, t)), pending |-> pd]

\* request(): fresh id, pending.set(id), write the line.
Requested(cs, pd, cmd, t) ==
  [calls |-> Append(cs, NewCall(cmd, t)), pending |-> pd \cup {Len(cs) + 1}]

\* JSON.stringify of a response's data (undefined when the field is absent).
JSONstringify(d) == IF d = Null THEN "undefined" ELSE "{\"sessionId\":\"s1\"}"

\* `${res.error ?? JSON.stringify(res.data)}`
ErrorOrData(msg) == IF msg.error # <<>> THEN msg.error ELSE <<JSONstringify(msg.data)>>

\* prompt()/abort()/getState(): what the caller of the wrapper gets.
Outcome(c) ==
  CASE c.st = "pending"  -> [settled |-> FALSE, ok |-> FALSE, value |-> Null, error |-> <<>>]
    [] c.st = "rejected" -> [settled |-> TRUE, ok |-> FALSE, value |-> Null, error |-> c.err]
    [] c.st = "resolved" /\ c.msg.success ->
         [settled |-> TRUE, ok |-> TRUE,
          value |-> IF c.cmd = "get_state" THEN c.msg.data ELSE Null, error |-> <<>>]
    [] OTHER ->
         [settled |-> TRUE, ok |-> FALSE, value |-> Null,
          error |-> <<"pi ", c.cmd, " failed: ">> \o ErrorOrData(c.msg)]

ExitError(code, signal) == <<"pi process exited (code=", code, ", signal=", signal, ")">>

WriteError == <<"write EPIPE">>

\* Prompt calls among ids, in Map (insertion) order, whose promise now rejects.
RECURSIVE PromptIdsFrom(_, _, _)
PromptIdsFrom(cs, ids, i) ==
  IF i > Len(cs) THEN <<>>
  ELSE (IF i \in ids /\ cs[i].cmd = "prompt" THEN <<i>> ELSE <<>>) \o PromptIdsFrom(cs, ids, i + 1)

\* --------------------------------------------------------- auth-required
Lower(tok) ==
  CASE tok = "No" -> "no" [] tok = "API" -> "api" [] tok = "Unauthorized" -> "unauthorized"
    [] OTHER -> tok

LowerAll(txt) == [i \in 1..Len(txt) |-> Lower(txt[i])]

patterns ==
  { <<"api", " ", "key">>, <<"apikey">>, <<"missing", " ", "key">>, <<"no", " ", "key">>,
    <<"not", " ", "configured">>, <<"unauthorized">>, <<"authentication">>,
    <<"permission", " ", "denied">>, <<"forbidden">>, <<"401">>, <<"403">> }

Includes(s, p) ==
  \E i \in 0..(Len(s) - Len(p)) : \A j \in 1..Len(p) : s[i + j] = p[j]

\* (variant: the message is compared with the patterns instead of searched)
maybeAuthRequiredErrorExact(err) == LowerAll(err) \in patterns

maybeAuthRequiredError(err) == \E p \in patterns : Includes(LowerAll(err), p)

\* ----------------------------------------------------------- a second session
PeerTurns == 1..MaxPeerPrompts

\* new PiAcpSession on a new PiRpcProcess: the fields of both, and n, the
\* calls and events this session has had.
NewSession ==
  [cancelRequested |-> FALSE, pendingTurn |-> NoTurn, turnQueue |-> <<>>,
   currentToolCalls |-> [id \in ToolIds |-> Absent],
   editSnapshots |-> [id \in ToolIds |-> NoSnapshot],
   updates |-> <<>>, delivered |-> 0, conts |-> <<>>,
   turnState |-> [t \in PeerTurns |-> "none"],
   pending |-> {}, nCalls |-> 0, exited |-> FALSE, n |-> 0]

\* ------------------------------------------------------------------- Init
Init ==
  /\ startupInfo \in StartupInfos
  /\ startupInfoSent = FALSE
  /\ cancelRequested = FALSE
  /\ pendingTurn = NoTurn
  /\ turnQueue = <<>>
  /\ inAgentLoop = FALSE
  /\ currentToolCalls = [id \in ToolIds |-> Absent]
  /\ editSnapshots = [id \in ToolIds |-> NoSnapshot]
  /\ updates = <<>>
  /\ delivered = 0
  /\ accepted = <<>>
  /\ conts = <<>>
  /\ turnState = [t \in Turns |-> "none"]
  /\ pending = {}
  /\ calls = <<>>
  /\ failq = <<>>
  /\ exited = <<>>
  /\ eventHandlers = <<SessionHandler>>
  /\ subs = <<[h |-> SessionHandler, live |-> TRUE, called |-> 0]>>
  /\ file \in Contents
  /\ nChildEvents = 0
  /\ nCancels = 0
  /\ drained = {}
  /\ resolvedBy = [t \in Turns |-> "none"]
  /\ started = {}
  /\ deltaLog = <<>>
  /\ got = [h \in Handlers |-> <<>>]
  /\ atExit = NoTurn
  /\ twin = [pendingTurn |-> NoTurn, turnQueue |-> <<>>, updates |-> <<>>, delivered |-> 0,
             conts |-> <<>>, turnState |-> [t \in Turns |-> "none"]]
  /\ peer = NewSession
  /\ manager = [sessions |-> {}, log |-> <<>>]
  /\ agentPrompts = <<>>

\* One more stdout line, write error or exit has been handled.
ChildEvent == nChildEvents' = nChildEvents + 1

\* How many entries of the handler array hs are the function h.
Count(hs, h) == Cardinality({i \in 1..Len(hs) : hs[i] = h})

\* (variant: the line is put before the lines the handler has had)
DispatchNewestFirst ==
  got' = [h \in Handlers |->
            [k \in 1..Count(eventHandlers, h) |-> nChildEvents + 1] \o got[h]]

\* for (const h of this.eventHandlers) h(msg)
Dispatch ==
  got' = [h \in Handlers |->
            got[h] \o [k \in 1..Count(eventHandlers, h) |-> nChildEvents + 1]]

\* ------------------------------------------------------------ PiAcpSession
\* (variant: the running turn is not looked at)
TurnRunningNever(pt) == FALSE

\* if (this.pendingTurn)
TurnRunning(pt) == pt # NoTurn

\* (variant: the cancellation flag is left as it is)
startTurnKeepsFlag(t, ups, q, ts) ==
  LET r == Requested(calls, pending, "prompt", t) IN
  /\ cancelRequested' = cancelRequested
  /\ inAgentLoop' = FALSE
  /\ pendingTurn' = t
  /\ turnQueue' = q
  /\ updates' = Append(ups, Info(Len(q), TRUE))
  /\ turnState' = [ts EXCEPT ![t] = "active"]
  /\ calls' = r.calls
  /\ pending' = r.pending

\* startTurn(t), given the updates, queue and futures the caller has produced so far.
startTurn(t, ups, q, ts) ==
  LET r == Requested(calls, pending, "prompt", t) IN
  /\ cancelRequested' = FALSE
  /\ inAgentLoop' = FALSE
  /\ pendingTurn' = t
  /\ turnQueue' = q
  /\ updates' = Append(ups, Info(Len(q), TRUE))
  /\ turnState' = [ts EXCEPT ![t] = "active"]
  /\ calls' = r.calls
  /\ pending' = r.pending

\* The startup info goes out as the first chunk of the first prompt.
WithStartupInfo(ups) ==
  IF ~startupInfoSent /\ startupInfo # Null THEN Append(ups, Chunk(<<startupInfo>>)) ELSE ups

sendStartupInfoIfPending ==
  /\ ~startupInfoSent /\ startupInfo # Null
  /\ startupInfoSent' = TRUE
  /\ updates' = Append(updates, Chunk(<<startupInfo>>))
  /\ UNCHANGED <<startupInfo, turnVars, toolVars, delivered, accepted, conts, procVars, file, histVars>>

prompt ==
  /\ nPrompts < MaxPrompts
  /\ LET t == nPrompts + 1
         ups == WithStartupInfo(updates)
     IN /\ startupInfoSent' = (startupInfoSent \/ startupInfo # Null)
        /\ IF TurnRunning(pendingTurn)
           THEN LET q == Append(turnQueue, t) IN
                /\ turnQueue' = q
                /\ updates' = ups \o <<Chunk(QueuedText(Len(q))), Info(Len(q), TRUE)>>
                /\ turnState' = [turnState EXCEPT ![t] = "queued"]
                /\ UNCHANGED <<cancelRequested, pendingTurn, inAgentLoop, calls, pending>>
           ELSE startTurn(t, ups, turnQueue, turnState)
  /\ UNCHANGED <<startupInfo, toolVars, delivered, accepted, conts, failq, exited, subVars, file, histVars>>

\* (variant: only the head is removed)
spliceOne(q) == IF q = <<>> THEN [removed |-> <<>>, rest |-> <<>>]
                ELSE [removed |-> <<Head(q)>>, rest |-> Tail(q)]

\* splice(0, length): everything is removed from the queue.
splice(q) == [removed |-> q, rest |-> <<>>]

\* (variant: abort is sent only while a turn is running)
cancelOpOnlyWhenRunning ==
  /\ LET sp == splice(turnQueue)
         r  == IF pendingTurn # NoTurn THEN Requested(calls, pending, "abort", NoTurn)
               ELSE [calls |-> calls, pending |-> pending]
     IN /\ cancelRequested' = TRUE
        /\ turnQueue' = sp.rest
        /\ turnState' = [t \in Turns |->
                           IF t \in Range(sp.removed) THEN Settle(turnState, t, "cancelled")[t]
                           ELSE turnState[t]]
        /\ resolvedBy' = [t \in Turns |->
                            IF t \in Range(sp.removed) THEN Noted(resolvedBy, turnState, t, "drain")[t]
                            ELSE resolvedBy[t]]
        /\ updates' = IF Len(turnQueue) > 0
                      THEN updates \o <<Chunk(ClearedText), Info(0, pendingTurn # NoTurn)>>
                      ELSE updates
        /\ calls' = r.calls
        /\ pending' = r.pending
        /\ drained' = drained \cup Range(turnQueue)
  /\ nCancels' = nCancels + 1
  /\ UNCHANGED <<infoVars, pendingTurn, inAgentLoop, toolVars, delivered, accepted, conts,
                 failq, exited, subVars, file, nChildEvents, started, deltaLog, got, atExit>>

\* (variant: the abort command is sent and the local state is left for later)
cancelOpAbortFirst ==
  /\ LET r == Requested(calls, pending, "abort", NoTurn)
     IN /\ calls' = r.calls
        /\ pending' = r.pending
        /\ drained' = drained \cup Range(turnQueue)
  /\ nCancels' = nCancels + 1
  /\ UNCHANGED <<infoVars, turnVars, toolVars, emitVars, resolvedBy,
                 failq, exited, subVars, file, nChildEvents, started, deltaLog, got, atExit>>

\* PiAcpSession.cancel(), up to its await: the flag, the queue, the notice, and
\* proc.abort(), whose request() registers the call and writes the line.
cancelOp ==
  /\ LET sp == splice(turnQueue)
         r  == Requested(calls, pending, "abort", NoTurn)
     IN /\ cancelRequested' = TRUE
        /\ turnQueue' = sp.rest
        /\ turnState' = [t \in Turns |->
                           IF t \in Range(sp.removed) THEN Settle(turnState, t, "cancelled")[t]
                           ELSE turnState[t]]
        /\ resolvedBy' = [t \in Turns |->
                            IF t \in Range(sp.removed) THEN Noted(resolvedBy, turnState, t, "drain")[t]
                            ELSE resolvedBy[t]]
        /\ updates' = IF Len(turnQueue) > 0
                      THEN updates \o <<Chunk(ClearedText), Info(0, pendingTurn # NoTurn)>>
                      ELSE updates
        /\ calls' = r.calls
        /\ pending' = r.pending
        /\ drained' = drained \cup Range(turnQueue)
  /\ nCancels' = nCancels + 1
  /\ UNCHANGED <<infoVars, pendingTurn, inAgentLoop, toolVars, delivered, accepted, conts,
                 failq, exited, subVars, file, nChildEvents, started, deltaLog, got, atExit>>

cancel == nCancels < MaxCancels /\ cancelOp

\* agent.ts reads the child's state with proc.getState().
getState ==
  /\ Cardinality({i \in 1..Len(calls) : calls[i].cmd = "get_state"}) < MaxQueries
  /\ LET r == Requested(calls, pending, "get_state", NoTurn) IN
     /\ calls' = r.calls
     /\ pending' = r.pending
  /\ UNCHANGED <<sessionVars, failq, exited, subVars, file, histVars>>

\* (variant: every emit() calls conn.sessionUpdate at once, without the chain)
InFlightAll(n, acc) == (1..n) \ Range(acc)

\* emit(): lastEmit = lastEmit.then(() => conn.sessionUpdate(update)).catch(...).
\* The updates handed to the transport and not yet settled, of n generated
\* updates of which those in acc have settled: the then-callback of an update
\* runs in the microtasks that follow the settlement of its predecessor.
InFlight(n, acc) == IF Len(acc) < n THEN {Len(acc) + 1} ELSE {}

\* conn.sessionUpdate of an update in flight settles.  The chain's catch makes
\* a rejection indistinguishable from an accepted delivery.
Deliver ==
  /\ \E i \in InFlight(Len(updates), accepted) : accepted' = Append(accepted, i)
  /\ delivered' = delivered + 1
  /\ UNCHANGED <<infoVars, turnVars, toolVars, updates, conts, procVars, file, histVars>>

\* At most this many deliveries are rejected in a behaviour.
MaxDeliveryFailures == 2

\* The deliveries that were rejected so far.
Rejected(acc) == {k \in 1..Len(acc) : acc[k] < 0}

\* (variant: the rejection is not caught, and the chain stays rejected)
DeliverFailsBreaksChain ==
  /\ Cardinality(Rejected(accepted)) < MaxDeliveryFailures
  /\ \E i \in InFlight(Len(updates), accepted) : accepted' = Append(accepted, 0 - i)
  /\ delivered' = delivered
  /\ UNCHANGED <<infoVars, turnVars, toolVars, updates, conts, procVars, file, histVars>>

\* conn.sessionUpdate of the update in flight rejects: the catch of the chain
\* settles the link, and the next then-callback runs as after a delivery.  The
\* rejected delivery is logged with the negated number of the update.
DeliverFails ==
  /\ Cardinality(Rejected(accepted)) < MaxDeliveryFailures
  /\ \E i \in InFlight(Len(updates), accepted) : accepted' = Append(accepted, 0 - i)
  /\ delivered' = delivered + 1
  /\ UNCHANGED <<infoVars, turnVars, toolVars, updates, conts, procVars, file, histVars>>

\* ------------------------------------------------- PiRpcProcess handlers
\* (variant: a line that cannot be parsed reaches the handlers)
ReadIgnoredLineDispatched(kind) ==
  /\ kind \in {"blank", "malformed"}
  /\ ChildEvent
  /\ IF kind = "malformed" THEN Dispatch ELSE UNCHANGED got
  /\ UNCHANGED <<sessionVars, procVars, file, nCancels, drained, resolvedBy, started, deltaLog, atExit>>

\* A blank line (!line.trim()) or a line JSON.parse throws on: return.
ReadIgnoredLine(kind) ==
  /\ kind \in {"blank", "malformed"}
  /\ ChildEvent
  /\ UNCHANGED <<sessionVars, procVars, file, nCancels, drained, resolvedBy, started, deltaLog, got, atExit>>

ResponseBodies ==
  {[success |-> TRUE, data |-> d, error |-> <<>>, present |-> TRUE] : d \in Datas}
  \cup {[success |-> FALSE, data |-> Null, error |-> e, present |-> TRUE] : e \in ErrTexts \ {<<>>}}
  \cup {[success |-> FALSE, data |-> "state", error |-> <<>>, present |-> TRUE]}

\* (variant: the line's id is not compared)
CorrelateAny(id, pd) == IF pd # {} THEN CHOOSE x \in pd : TRUE ELSE NoId

\* The id whose pending call a response line settles (NoId: none).
Correlate(id, pd) == IF id # NoId /\ id \in pd THEN id ELSE NoId

\* (variant: the entry of a settled call stays in the pending map)
ReadResponseKeepsEntry(id, msg) ==
  /\ ChildEvent
  /\ LET c == IF id \in 1..Len(calls) /\ calls[id].st # "rejected" THEN id ELSE NoId IN
     IF c # NoId
     THEN /\ pending' = pending \ {c}
          /\ calls' = [calls EXCEPT ![c].st = "resolved", ![c].msg = msg]
          /\ failq' = IF calls[c].cmd = "prompt" /\ ~msg.success THEN Append(failq, c) ELSE failq
          /\ UNCHANGED got
     ELSE /\ UNCHANGED <<pending, calls, failq>>
          /\ Dispatch
  /\ UNCHANGED <<sessionVars, exited, subVars, file, nCancels, drained, resolvedBy, started, deltaLog, atExit>>

\* A line {type:"response", id, ...}.  An uncorrelated one goes to the event
\* handlers, where handlePiEvent ignores its type.
ReadResponse(id, msg) ==
  /\ ChildEvent
  /\ LET c == Correlate(id, pending) IN
     IF c # NoId
     THEN /\ pending' = pending \ {c}
          /\ calls' = [calls EXCEPT ![c].st = "resolved", ![c].msg = msg]
          /\ failq' = IF calls[c].cmd = "prompt" /\ ~msg.success THEN Append(failq, c) ELSE failq
          /\ UNCHANGED got
     ELSE /\ UNCHANGED <<pending, calls, failq>>
          /\ Dispatch
  /\ UNCHANGED <<sessionVars, exited, subVars, file, nCancels, drained, resolvedBy, started, deltaLog, atExit>>

\* (variant: the entry stays in the pending map)
WriteFailKeepsEntry(id) ==
  /\ id \in pending
  /\ ChildEvent
  /\ pending' = pending
  /\ calls' = [calls EXCEPT ![id].st = "rejected", ![id].err = WriteError]
  /\ failq' = IF calls[id].cmd = "prompt" THEN Append(failq, id) ELSE failq
  /\ UNCHANGED <<sessionVars, exited, subVars, file, nCancels, drained, resolvedBy, started, deltaLog, got, atExit>>

\* stdin.write reports an error for the line of call id.
WriteFail(id) ==
  /\ id \in pending
  /\ ChildEvent
  /\ pending' = pending \ {id}
  /\ calls' = [calls EXCEPT ![id].st = "rejected", ![id].err = WriteError]
  /\ failq' = IF calls[id].cmd = "prompt" THEN Append(failq, id) ELSE failq
  /\ UNCHANGED <<sessionVars, exited, subVars, file, nCancels, drained, resolvedBy, started, deltaLog, got, atExit>>

\* (variant: only the oldest pending call is rejected)
RejectFirst(cs, pd, err) ==
  [i \in 1..Len(cs) |->
     IF i \in pd /\ \A j \in pd : i <= j THEN [cs[i] EXCEPT !.st = "rejected", !.err = err]
     ELSE cs[i]]

\* for (const [, p] of this.pending) p.reject(err)
RejectAll(cs, pd, err) ==
  [i \in 1..Len(cs) |-> IF i \in pd THEN [cs[i] EXCEPT !.st = "rejected", !.err = err] ELSE cs[i]]

\* child.on("exit")
Exit(code, signal) ==
  /\ exited = <<>>
  /\ ChildEvent
  /\ exited' = <<code, signal>>
  /\ atExit' = pendingTurn
  /\ calls' = RejectAll(calls, pending, ExitError(code, signal))
  /\ pending' = {}
  /\ failq' = failq \o PromptIdsFrom(calls, pending, 1)
  /\ UNCHANGED <<sessionVars, subVars, file, nCancels, drained, resolvedBy, started, deltaLog, got>>

\* this.eventHandlers.filter((h) => h !== handler)
filter(hs, h) == SelectSeq(hs, LAMBDA x : x # h)

\* onEvent(handler): push, and return the function that removes the handler.
onEvent(handler) ==
  /\ Len(subs) < 1 + MaxSubs
  /\ eventHandlers' = Append(eventHandlers, handler)
  /\ subs' = Append(subs, [h |-> handler, live |-> TRUE, called |-> 0])
  /\ UNCHANGED <<sessionVars, pending, calls, failq, exited, file, histVars>>

\* A call of the function the k-th onEvent() returned (the session drops the
\* one it got; called counts the calls, up to MaxUnsubCalls).
Unsubscribe(k) ==
  /\ k \in 2..Len(subs)
  /\ subs[k].called < MaxUnsubCalls
  /\ eventHandlers' = filter(eventHandlers, subs[k].h)
  /\ subs' = [subs EXCEPT ![k].live = FALSE, ![k].called = @ + 1]
  /\ UNCHANGED <<sessionVars, pending, calls, failq, exited, file, histVars>>

\* ------------------------------------------------ PiAcpSession.handlePiEvent
\* An event of a type the switch has no case for: default, break.
OnOtherEvent ==
  /\ ChildEvent
  /\ Dispatch
  /\ UNCHANGED <<sessionVars, procVars, file, nCancels, drained, resolvedBy, started, deltaLog, atExit>>

\* (variant: a delta equal to the previous chunk is merged into it)
OnTextDeltaMerged(delta) ==
  /\ ChildEvent
  /\ Dispatch
  /\ deltaLog' = IF delta # Null THEN Append(deltaLog, delta) ELSE deltaLog
  /\ updates' = IF delta # Null /\ (updates = <<>> \/ updates[Len(updates)] # Chunk(<<delta>>))
                THEN Append(updates, Chunk(<<delta>>)) ELSE updates
  /\ UNCHANGED <<infoVars, turnVars, toolVars, delivered, accepted, conts, procVars, file,
                 nCancels, drained, resolvedBy, started, atExit>>

\* (variant: deltas are dropped once cancellation was requested)
OnTextDeltaUnlessCancelled(delta) ==
  /\ ChildEvent
  /\ Dispatch
  /\ deltaLog' = IF delta # Null THEN Append(deltaLog, delta) ELSE deltaLog
  /\ updates' = IF delta # Null /\ ~cancelRequested THEN Append(updates, Chunk(<<delta>>))
                ELSE updates
  /\ UNCHANGED <<infoVars, turnVars, toolVars, delivered, accepted, conts, procVars, file,
                 nCancels, drained, resolvedBy, started, atExit>>

\* message_update with a text_delta; delta = Null: ame.delta is not a string,
\* and no later branch of the case emits anything for this event.
OnTextDelta(delta) ==
  /\ ChildEvent
  /\ Dispatch
  /\ deltaLog' = IF delta # Null THEN Append(deltaLog, delta) ELSE deltaLog
  /\ updates' = IF delta # Null THEN Append(updates, Chunk(<<delta>>)) ELSE updates
  /\ UNCHANGED <<infoVars, turnVars, toolVars, delivered, accepted, conts, procVars, file,
                 nCancels, drained, resolvedBy, started, atExit>>

OnAgentStart ==
  /\ ChildEvent
  /\ Dispatch
  /\ inAgentLoop' = TRUE
  /\ UNCHANGED <<infoVars, cancelRequested, pendingTurn, turnQueue, turnState, toolVars,
                 emitVars, procVars, file, nCancels, drained, resolvedBy, started, deltaLog, atExit>>

\* (variant: turn_end treated like agent_end)
OnTurnEndResolves ==
  /\ ChildEvent
  /\ Dispatch
  /\ conts' = Append(conts, [kind |-> "agent_end", at |-> Len(updates), gen |-> Len(updates), err |-> <<>>,
                         turn |-> pendingTurn])
  /\ UNCHANGED <<infoVars, turnVars, toolVars, updates, delivered, accepted, procVars, file,
                 nCancels, drained, resolvedBy, started, deltaLog, atExit>>

\* turn_end: a sub-step of the agent loop; nothing is resolved.
OnTurnEnd ==
  /\ ChildEvent
  /\ Dispatch
  /\ UNCHANGED <<sessionVars, procVars, file, nCancels, drained, resolvedBy, started, deltaLog, atExit>>

\* (variant: the continuation does not wait for the chain)
OnAgentEndNoFlush ==
  /\ ChildEvent
  /\ Dispatch
  /\ conts' = Append(conts, [kind |-> "agent_end", at |-> 0, gen |-> Len(updates), err |-> <<>>,
                         turn |-> pendingTurn])
  /\ UNCHANGED <<infoVars, turnVars, toolVars, updates, delivered, accepted, procVars, file,
                 nCancels, drained, resolvedBy, started, deltaLog, atExit>>

\* agent_end: flushEmits().finally(...) waits for the chain as it is now (at);
\* gen remembers how many updates had been generated when the event came, turn
\* the turn that was pending then.
OnAgentEnd ==
  /\ ChildEvent
  /\ Dispatch
  /\ conts' = Append(conts, [kind |-> "agent_end", at |-> Len(updates), gen |-> Len(updates), err |-> <<>>,
                         turn |-> pendingTurn])
  /\ UNCHANGED <<infoVars, turnVars, toolVars, updates, delivered, accepted, procVars, file,
                 nCancels, drained, resolvedBy, started, deltaLog, atExit>>

\* (variant: pop() instead of shift())
shiftLast(q) == [next |-> q[Len(q)], rest |-> SubSeq(q, 1, Len(q) - 1)]

\* (variant: the head is read but stays in the queue)
shiftKeep(q) == [next |-> Head(q), rest |-> q]

\* turnQueue.shift()
shift(q) == [next |-> Head(q), rest |-> Tail(q)]

StopReasonOnAgentEnd(cancelled) == IF cancelled THEN "cancelled" ELSE "end_turn"

\* The continuation of agent_end, once the chain it waited for is delivered.
AgentEndFlushed ==
  /\ conts # <<>>
  /\ Head(conts).kind = "agent_end"
  /\ delivered >= Head(conts).at
  /\ conts' = Tail(conts)
  /\ resolvedBy' = Noted(resolvedBy, turnState, pendingTurn, "agent_end")
  /\ LET ts == Settle(turnState, pendingTurn, StopReasonOnAgentEnd(cancelRequested)) IN
     IF turnQueue # <<>>
     THEN LET sh == shift(turnQueue) IN
          startTurn(sh.next, Append(updates, Chunk(StartingText(Len(sh.rest)))), sh.rest, ts)
     ELSE /\ pendingTurn' = NoTurn
          /\ inAgentLoop' = FALSE
          /\ turnState' = ts
          /\ updates' = Append(updates, Info(0, FALSE))
          /\ UNCHANGED <<cancelRequested, turnQueue, calls, pending>>
  /\ UNCHANGED <<infoVars, toolVars, delivered, accepted, failq, exited, subVars, file,
                 nChildEvents, nCancels, drained, started, deltaLog, got, atExit>>

\* proc.prompt(...).catch(err => ...): the rejection of a prompt call reaches
\* startTurn's handler, which waits for the chain as it is now.
PromptCatch ==
  /\ failq # <<>>
  /\ failq' = Tail(failq)
  /\ conts' = Append(conts, [kind |-> "failure", at |-> Len(updates), gen |-> Len(updates),
                             err |-> Outcome(calls[Head(failq)]).error,
                             turn |-> calls[Head(failq)].turn])
  /\ UNCHANGED <<infoVars, turnVars, toolVars, updates, delivered, accepted, pending, calls, exited, subVars,
                 file, histVars>>

\* (variant: the cancellation flag is not looked at)
StopReasonOnFailureNoCancel(cancelled) == "error"

StopReasonOnFailure(cancelled) == IF cancelled THEN "cancelled" ELSE "error"

\* What the failure of the prompt command settles the pending turn with.
FailureSettlement(err, cancelled) ==
  IF maybeAuthRequiredError(err) THEN "auth_required" ELSE StopReasonOnFailure(cancelled)

\* (variant: the failed turn stays the pending turn)
PromptFailureFlushedKeepsTurn ==
  /\ conts # <<>>
  /\ Head(conts).kind = "failure"
  /\ delivered >= Head(conts).at
  /\ conts' = Tail(conts)
  /\ resolvedBy' = Noted(resolvedBy, turnState, pendingTurn, "failure")
  /\ turnState' = Settle(turnState, pendingTurn, FailureSettlement(Head(conts).err, cancelRequested))
  /\ pendingTurn' = pendingTurn
  /\ inAgentLoop' = FALSE
  /\ updates' = Append(updates, Info(Len(turnQueue), FALSE))
  /\ UNCHANGED <<infoVars, cancelRequested, turnQueue, toolVars, delivered, accepted, procVars, file,
                 nChildEvents, nCancels, drained, started, deltaLog, got, atExit>>

\* The continuation of a prompt failure.  The queue is left as it is.
PromptFailureFlushed ==
  /\ conts # <<>>
  /\ Head(conts).kind = "failure"
  /\ delivered >= Head(conts).at
  /\ conts' = Tail(conts)
  /\ resolvedBy' = Noted(resolvedBy, turnState, pendingTurn, "failure")
  /\ turnState' = Settle(turnState, pendingTurn, FailureSettlement(Head(conts).err, cancelRequested))
  /\ pendingTurn' = NoTurn
  /\ inAgentLoop' = FALSE
  /\ updates' = Append(updates, Info(Len(turnQueue), FALSE))
  /\ UNCHANGED <<infoVars, cancelRequested, turnQueue, toolVars, delivered, accepted, procVars, file,
                 nChildEvents, nCancels, drained, started, deltaLog, got, atExit>>

\* ----------------------------------------- handlePiEvent: tool calls
toToolKind(toolName) ==
  CASE toolName = "read" -> "read"
    [] toolName \in {"write", "edit"} -> "edit"
    [] OTHER -> "other"

\* The texts of the result's content blocks, or its JSON when there are none.
toolResultToText(result) ==
  IF ~result.present THEN <<>>
  ELSE LET texts == SelectSeq(result.texts, LAMBDA x : x # "") IN
       IF texts # <<>> THEN texts ELSE <<"JSON">>

TextBlock(txt) == [type |-> "content", path |-> Null, oldText |-> Null, newText |-> Null, text |-> txt]

DiffBlock(path, old, new) ==
  [type |-> "diff", path |-> path, oldText |-> old, newText |-> new, text |-> <<>>]

TextContent(txt) == IF txt # <<>> THEN <<TextBlock(txt)>> ELSE <<>>

\* message_update with toolcall_start / toolcall_delta / toolcall_end.
\* id = Null: the tool call carries no id.
OnToolcall(type, id, toolName, rawInput) ==
  /\ type \in {"toolcall_start", "toolcall_delta", "toolcall_end"}
  /\ ChildEvent
  /\ Dispatch
  /\ IF id = Null
     THEN UNCHANGED <<currentToolCalls, updates>>
     ELSE LET existingStatus == currentToolCalls[id]
              status == IF existingStatus # Absent THEN existingStatus ELSE "pending"
          IN IF existingStatus = Absent
             THEN /\ currentToolCalls' = [currentToolCalls EXCEPT ![id] = "pending"]
                  /\ updates' = Append(updates, ToolCall(id, toolName, toToolKind(toolName),
                                                         status, rawInput))
             ELSE /\ UNCHANGED currentToolCalls
                  /\ updates' = Append(updates, ToolCallUpdate(id, status, rawInput, <<>>, NoResult))
  /\ UNCHANGED <<infoVars, turnVars, editSnapshots, delivered, accepted, conts, procVars, file,
                 nCancels, drained, resolvedBy, started, deltaLog, atExit>>

\* (variant: the start event announces the tool call whether or not a record exists)
OnToolExecutionStartAlwaysCreates(id, toolName, path) ==
  /\ ChildEvent
  /\ Dispatch
  /\ editSnapshots' =
       IF toolName = "edit" /\ path # Null /\ file # Missing
       THEN [editSnapshots EXCEPT ![id] = [path |-> path, oldText |-> file]]
       ELSE editSnapshots
  /\ currentToolCalls' = [currentToolCalls EXCEPT ![id] = "in_progress"]
  /\ updates' = Append(updates, ToolCall(id, toolName, toToolKind(toolName), "in_progress", path))
  /\ started' = started \cup {id}
  /\ UNCHANGED <<infoVars, turnVars, delivered, accepted, conts, procVars, file,
                 nCancels, drained, resolvedBy, deltaLog, atExit>>

\* (variant: no snapshot is taken)
OnToolExecutionStartNoSnapshot(id, toolName, path) ==
  /\ ChildEvent
  /\ Dispatch
  /\ editSnapshots' = editSnapshots
  /\ currentToolCalls' = [currentToolCalls EXCEPT ![id] = "in_progress"]
  /\ updates' = Append(updates,
                  IF currentToolCalls[id] = Absent
                  THEN ToolCall(id, toolName, toToolKind(toolName), "in_progress", path)
                  ELSE ToolCallUpdate(id, "in_progress", path, <<>>, NoResult))
  /\ started' = started \cup {id}
  /\ UNCHANGED <<infoVars, turnVars, delivered, accepted, conts, procVars, file,
                 nCancels, drained, resolvedBy, deltaLog, atExit>>

\* tool_execution_start; path = Null: args.path is not a string.
OnToolExecutionStart(id, toolName, path) ==
  /\ ChildEvent
  /\ Dispatch
  /\ editSnapshots' =
       IF toolName = "edit" /\ path # Null /\ file # Missing
       THEN [editSnapshots EXCEPT ![id] = [path |-> path, oldText |-> file]]
       ELSE editSnapshots
  /\ currentToolCalls' = [currentToolCalls EXCEPT ![id] = "in_progress"]
  /\ updates' = Append(updates,
                  IF currentToolCalls[id] = Absent
                  THEN ToolCall(id, toolName, toToolKind(toolName), "in_progress", path)
                  ELSE ToolCallUpdate(id, "in_progress", path, <<>>, NoResult))
  /\ started' = started \cup {id}
  /\ UNCHANGED <<infoVars, turnVars, delivered, accepted, conts, procVars, file,
                 nCancels, drained, resolvedBy, deltaLog, atExit>>

\* tool_execution_update
OnToolExecutionUpdate(id, partialResult) ==
  /\ ChildEvent
  /\ Dispatch
  /\ updates' = IF id = Null THEN updates
                ELSE Append(updates,
                       ToolCallUpdate(id, "in_progress", Null,
                                      TextContent(toolResultToText(partialResult)), partialResult))
  /\ UNCHANGED <<infoVars, turnVars, toolVars, delivered, accepted, conts, procVars, file,
                 nCancels, drained, resolvedBy, started, deltaLog, atExit>>

\* (variant: the outcome is not looked at)
EndContentAnyOutcome(snapshot, isError, text) ==
  IF snapshot # NoSnapshot /\ file # Missing /\ file # snapshot.oldText
  THEN <<DiffBlock(snapshot.path, snapshot.oldText, file)>> \o TextContent(text)
  ELSE TextContent(text)

\* The content of the completion notification.  readFileSync throws when the
\* file is missing at the end event: the catch leaves the text content only.
EndContent(snapshot, isError, text) ==
  IF ~isError /\ snapshot # NoSnapshot /\ file # Missing /\ file # snapshot.oldText
  THEN <<DiffBlock(snapshot.path, snapshot.oldText, file)>> \o TextContent(text)
  ELSE TextContent(text)

\* (variant: the snapshot is removed only when the tool did not fail)
OnToolExecutionEndKeepsOnError(id, isError, result) ==
  /\ ChildEvent
  /\ Dispatch
  /\ IF id = Null
     THEN UNCHANGED <<toolVars, updates>>
     ELSE /\ updates' = Append(updates,
                          ToolCallUpdate(id, IF isError THEN "failed" ELSE "completed", Null,
                                         EndContent(editSnapshots[id], isError,
                                                    toolResultToText(result)),
                                         result))
          /\ currentToolCalls' = [currentToolCalls EXCEPT ![id] = Absent]
          /\ editSnapshots' = IF isError THEN editSnapshots
                              ELSE [editSnapshots EXCEPT ![id] = NoSnapshot]
  /\ UNCHANGED <<infoVars, turnVars, delivered, accepted, conts, procVars, file,
                 nCancels, drained, resolvedBy, started, deltaLog, atExit>>

\* (variant: a tool error ends the turn like a failure of the prompt command)
OnToolExecutionEndAborts(id, isError, result) ==
  /\ ChildEvent
  /\ Dispatch
  /\ IF id = Null
     THEN UNCHANGED <<toolVars, updates>>
     ELSE /\ updates' = Append(updates,
                          ToolCallUpdate(id, IF isError THEN "failed" ELSE "completed", Null,
                                         EndContent(editSnapshots[id], isError,
                                                    toolResultToText(result)),
                                         result))
          /\ currentToolCalls' = [currentToolCalls EXCEPT ![id] = Absent]
          /\ editSnapshots' = [editSnapshots EXCEPT ![id] = NoSnapshot]
  /\ turnState' = IF isError THEN Settle(turnState, pendingTurn, "error") ELSE turnState
  /\ pendingTurn' = IF isError THEN NoTurn ELSE pendingTurn
  /\ UNCHANGED <<infoVars, cancelRequested, turnQueue, inAgentLoop, delivered, accepted, conts,
                 procVars, file, nCancels, drained, resolvedBy, started, deltaLog, atExit>>

\* tool_execution_end
OnToolExecutionEnd(id, isError, result) ==
  /\ ChildEvent
  /\ Dispatch
  /\ IF id = Null
     THEN UNCHANGED <<toolVars, updates>>
     ELSE /\ updates' = Append(updates,
                          ToolCallUpdate(id, IF isError THEN "failed" ELSE "completed", Null,
                                         EndContent(editSnapshots[id], isError,
                                                    toolResultToText(result)),
                                         result))
          /\ currentToolCalls' = [currentToolCalls EXCEPT ![id] = Absent]
          /\ editSnapshots' = [editSnapshots EXCEPT ![id] = NoSnapshot]
  /\ UNCHANGED <<infoVars, turnVars, delivered, accepted, conts, procVars, file,
                 nCancels, drained, resolvedBy, started, deltaLog, atExit>>

\* pi's tool changes the file.
ChildWritesFile(c) ==
  /\ c # file
  /\ file' = c
  /\ UNCHANGED <<sessionVars, procVars, histVars>>

\* ------------------------------------------------------ the turn controller
\* The responses the child gives to a prompt or abort command.
TurnBodies ==
  {[success |-> TRUE, data |-> Null, error |-> <<>>, present |-> TRUE]}
  \cup {[success |-> FALSE, data |-> Null, error |-> e, present |-> TRUE] : e \in ErrTexts \ {<<>>}}

InitTurns == Init /\ startupInfo = Null /\ file = Missing

Next ==
  \/ prompt /\ UNCHANGED <<twin, peer, manager, agentPrompts>>
  \/ cancel /\ UNCHANGED <<twin, peer, manager, agentPrompts>>
  \/ Deliver /\ UNCHANGED <<twin, peer, manager, agentPrompts>>
  \/ AgentEndFlushed /\ UNCHANGED <<twin, peer, manager, agentPrompts>>
  \/ PromptCatch /\ UNCHANGED <<twin, peer, manager, agentPrompts>>
  \/ PromptFailureFlushed /\ UNCHANGED <<twin, peer, manager, agentPrompts>>
  \/ nChildEvents < MaxChildEvents /\ \E id \in 1..Len(calls), m \in TurnBodies : ReadResponse(id, m) /\ UNCHANGED <<twin, peer, manager, agentPrompts>>
  \/ nChildEvents < MaxChildEvents /\ Exit("1", Null) /\ UNCHANGED <<twin, peer, manager, agentPrompts>>
  \/ nChildEvents < MaxChildEvents /\ OnTurnEnd /\ UNCHANGED <<twin, peer, manager, agentPrompts>>
  \/ nChildEvents < MaxChildEvents /\ OnAgentEnd /\ UNCHANGED <<twin, peer, manager, agentPrompts>>

Spec == InitTurns /\ [][Next]_vars

TypeOK ==
  /\ pendingTurn \in Turns \cup {NoTurn}
  /\ turnState \in [Turns -> TurnStates]
  /\ delivered \in 0..Len(updates)
  /\ pending \subseteq 1..Len(calls)

\* ------------------------------------------------------ turns: properties
\* The turns whose prompt command was forwarded to the child, in order.
Forwarded ==
  LET ps == SelectSeq(calls, LAMBDA c : c.cmd = "prompt") IN [i \in 1..Len(ps) |-> ps[i].turn]

NoPromptFailure ==
  \A i \in 1..Len(calls) :
    calls[i].cmd = "prompt" => (calls[i].st = "pending" \/ Outcome(calls[i]).ok)

\* The flush continuation that runs in a step that consumes the head of conts.
Flushing == conts # <<>> /\ conts' = Tail(conts) /\ delivered >= Head(conts).at

Resolves(t) == turnState[t] = "active" /\ turnState'[t] # "active"

StartsHead ==
  /\ pendingTurn' = Head(turnQueue)
  /\ turnQueue' = Tail(turnQueue)
  /\ Len(calls') = Len(calls) + 1
  /\ calls'[Len(calls')].cmd = "prompt"
  /\ calls'[Len(calls')].turn = Head(turnQueue)
  /\ Len(calls') \in pending'

C2_CancelDrainsQueue ==
  [][ /\ (nCancels' # nCancels) =>
           /\ turnQueue' = <<>>
           /\ \A t \in Range(turnQueue) : turnState'[t] = "cancelled"
      /\ \A t \in drained' :
           /\ turnState'[t] = "cancelled"
           /\ t \notin Range(Forwarded')
           /\ t \notin Range(turnQueue') ]_vars

\* Two queued turns were drained, the running turn ended on its agent_end, and
\* only the first command was ever forwarded.
C2_Witness ==
  /\ drained = {2, 3}
  /\ resolvedBy[1] = "agent_end"
  /\ Forwarded = <<1>>

C4_AsStated ==
  [][ \A t \in Turns : (Resolves(t) /\ conts # <<>>) =>
        turnState'[t] = (IF cancelRequested THEN "cancelled"
                         ELSE IF Head(conts).kind = "agent_end" THEN "end_turn"
                         ELSE "error") ]_vars

\* C4 (amended): as stated, except that a failure whose message contains one of
\* the credential/permission substrings rejects the turn with the
\* authentication-required error, with or without the cancellation flag.
C4_StopReason ==
  [][ \A t \in Turns : Resolves(t) =>
        /\ conts # <<>>
        /\ turnState'[t] =
             (IF Head(conts).kind = "failure" /\ maybeAuthRequiredError(Head(conts).err)
              THEN "auth_required"
              ELSE IF cancelRequested THEN "cancelled"
              ELSE IF Head(conts).kind = "agent_end" THEN "end_turn"
              ELSE "error") ]_vars

\* A turn whose prompt command failed after cancel() resolved 'cancelled', and
\* another one whose command failed without cancel() resolved 'error'.
C4_Witness ==
  \E t, u \in Turns :
    /\ resolvedBy[t] = "failure" /\ turnState[t] = "cancelled"
    /\ resolvedBy[u] = "failure" /\ turnState[u] = "error"

\* C5: at most one turn is Active (its command forwarded, its future unsettled),
\* and it is the session's pending turn and the turn forwarded last.
C5_AtMostOneActive ==
  LET active == {t \in Turns : turnState[t] = "active"} IN
  /\ Cardinality(active) <= 1
  /\ \A t \in active : pendingTurn = t /\ Forwarded[Len(Forwarded)] = t
  /\ pendingTurn # NoTurn => pendingTurn \in active

\* After a cancel() and a failure, a later turn is the only Active one.
C5_Witness ==
  /\ nCancels = 1
  /\ \E t \in Turns : resolvedBy[t] = "failure"
  /\ turnState[3] = "active"
  /\ Len(Forwarded) >= 2

\* C6 as stated: whenever an Active turn resolves and the queue is not empty,
\* the head of the queue is dequeued and its prompt command forwarded in that step.
C6_AsStated ==
  [][ \A t \in Turns : (Resolves(t) /\ turnQueue # <<>>) => StartsHead ]_vars

\* C6 (amended): that holds when the turn resolves on agent_end; when it resolves
\* on a failure of its prompt command the queue is left as it is, no command is
\* forwarded and no turn is pending.
C6_NextStartsOnAgentEnd ==
  [][ \A t \in Turns : (Resolves(t) /\ turnQueue # <<>>) =>
        /\ conts # <<>>
        /\ IF Head(conts).kind = "agent_end" THEN StartsHead
           ELSE turnQueue' = turnQueue /\ calls' = calls /\ pendingTurn' = NoTurn ]_vars

\* Turn 1 ended on agent_end and turn 2 was started by it; turn 2's command
\* failed and turn 3 is still queued with nothing running.
C6_Witness ==
  /\ resolvedBy[1] = "agent_end" /\ resolvedBy[2] = "failure"
  /\ Forwarded = <<1, 2>>
  /\ turnQueue = <<3>> /\ pendingTurn = NoTurn

\* C11: the deliveries settle in the order the updates were generated, and an
\* update is in the hands of the transport only when the deliveries of all the
\* updates generated before it have settled.
C11_DeliveriesSerialized ==
  /\ accepted = [i \in 1..Len(accepted) |-> i]
  /\ delivered = Len(accepted)
  /\ \A i \in InFlight(Len(updates), accepted) :
       \A j \in 1..(i - 1) : j \in Range(accepted)

\* Three deliveries have settled while at least two later updates were waiting
\* behind the one in flight.
C11_Witness ==
  /\ accepted = <<1, 2, 3>>
  /\ Len(updates) >= 6

\* Some turn has been resolved 'error' by the failure of a prompt command.
FailedBefore == \E t \in Turns : turnState[t] = "error" /\ resolvedBy[t] = "failure"

\* C18: when the failure of a prompt command resolves a turn 'error' and the
\* child has not exited, no turn is pending afterwards; a prompt() made while
\* no turn is pending is forwarded in that call; and a turn that runs after such
\* a failure resolves 'end_turn' when an agent_end ends it without cancel().
C18_UsableAfterFailure ==
  [][ /\ \A t \in Turns :
           (Resolves(t) /\ conts # <<>> /\ Head(conts).kind = "failure"
              /\ turnState'[t] = "error" /\ exited = <<>>) =>
             (pendingTurn' = NoTurn /\ inAgentLoop' = FALSE)
      /\ (nPrompts' = nPrompts + 1 /\ pendingTurn = NoTurn) =>
           LET t == nPrompts' IN
           /\ turnState'[t] = "active" /\ pendingTurn' = t
           /\ Forwarded' = Append(Forwarded, t)
           /\ Len(calls') \in pending' /\ calls'[Len(calls')].turn = t
      /\ \A u \in Turns :
           (FailedBefore /\ Resolves(u) /\ conts # <<>> /\ Head(conts).kind = "agent_end"
              /\ ~cancelRequested) => turnState'[u] = "end_turn" ]_vars

\* The first prompt's command failed and the turn resolved 'error'; the child
\* runs; the second prompt was never queued, its command was forwarded and the
\* turn resolved 'end_turn' on agent_end.
C18_Witness ==
  /\ turnState[1] = "error" /\ resolvedBy[1] = "failure"
  /\ exited = <<>> /\ nCancels = 0
  /\ Forwarded = <<1, 2>>
  /\ Chunk(QueuedText(1)) \notin Range(updates)
  /\ turnState[2] = "end_turn" /\ resolvedBy[2] = "agent_end"

\* C23: when the continuation of a failed prompt command runs and the command
\* is that of the Active turn, the turn is rejected with the
\* authentication-required error if the failure message contains one of the
\* credential/permission substrings, and otherwise resolves 'cancelled' if
\* cancellation was requested and 'error' if not.
C23_AuthRequiredOnFailure ==
  [][ (PromptFailureFlushed /\ pendingTurn # NoTurn /\ Head(conts).turn = pendingTurn) =>
        LET msg == LowerAll(Head(conts).err) IN
        turnState'[pendingTurn] =
          (IF \E pat \in patterns : Includes(msg, pat) THEN "auth_required"
           ELSE IF cancelRequested THEN "cancelled"
           ELSE "error") ]_vars

\* One turn was rejected as authentication-required on the response 'No API
\* key', another resolved 'error' on another message, with cancel() in between.
C23_Witness ==
  \E t, u \in Turns :
    /\ turnState[t] = "auth_required" /\ resolvedBy[t] = "failure"
    /\ turnState[u] = "error" /\ resolvedBy[u] = "failure"
    /\ nCancels = 1
    /\ \E i \in 1..Len(calls) :
         calls[i].turn = t /\ calls[i].msg.error = <<"No", " ", "API", " ", "key">>

\* The turn controller with its continuations and the transport making
\* progress: a promise reaction that is ready runs, and a delivery settles.
SpecLive ==
  /\ InitTurns /\ [][Next]_vars
  /\ WF_vars(Deliver /\ UNCHANGED <<twin, peer, manager, agentPrompts>>)
  /\ WF_vars(AgentEndFlushed /\ UNCHANGED <<twin, peer, manager, agentPrompts>>)
  /\ WF_vars(PromptCatch /\ UNCHANGED <<twin, peer, manager, agentPrompts>>)
  /\ WF_vars(PromptFailureFlushed /\ UNCHANGED <<twin, peer, manager, agentPrompts>>)

\* C19: a turn that is Active when the child exits is eventually resolved.
C19_ExitResolvesActiveTurn ==
  \A t \in Turns : [](atExit = t => <>(turnState[t] # "active"))

\* ------------------------------------------------------- the message stream
\* Prompts, cancel and the events of the agent loop, with the deliveries.
NextStream ==
  \/ prompt /\ UNCHANGED <<twin, peer, manager, agentPrompts>>
  \/ cancel /\ UNCHANGED <<twin, peer, manager, agentPrompts>>
  \/ Deliver /\ UNCHANGED <<twin, peer, manager, agentPrompts>>
  \/ AgentEndFlushed /\ UNCHANGED <<twin, peer, manager, agentPrompts>>
  \/ nChildEvents < MaxStreamEvents /\ OnAgentStart /\ UNCHANGED <<twin, peer, manager, agentPrompts>>
  \/ nChildEvents < MaxStreamEvents /\ \E d \in Deltas : OnTextDelta(d) /\ UNCHANGED <<twin, peer, manager, agentPrompts>>
  \/ nChildEvents < MaxStreamEvents /\ OnTurnEnd /\ UNCHANGED <<twin, peer, manager, agentPrompts>>
  \/ nChildEvents < MaxStreamEvents /\ OnAgentEnd /\ UNCHANGED <<twin, peer, manager, agentPrompts>>

SpecStream == InitTurns /\ [][NextStream]_vars

\* C12: when the continuation of an agent_end resolves a turn, the deliveries of
\* all the updates generated before that agent_end event have settled.
C12_FlushedBeforeResolve ==
  [][ \A t \in Turns :
        (Resolves(t) /\ conts # <<>> /\ Head(conts).kind = "agent_end") =>
          \A i \in 1..Head(conts).gen : i \in Range(accepted) ]_vars

\* agent_start, text_delta "Hi", turn_end, agent_end: the prompt resolved
\* 'end_turn', and the chunk "Hi" is the one message chunk, delivered before.
C12_Witness ==
  /\ nPrompts = 1 /\ nCancels = 0 /\ nChildEvents = 4
  /\ inAgentLoop = FALSE /\ deltaLog = <<"Hi">>
  /\ turnState[1] = "end_turn" /\ resolvedBy[1] = "agent_end"
  /\ updates = <<Info(0, TRUE), Chunk(<<"Hi">>), Info(0, FALSE)>>
  /\ accepted = <<1, 2>>

\* The message chunks that carry a streamed delta (the bridge's own notices are
\* not single deltas).
DeltaChunks ==
  SelectSeq(updates, LAMBDA u : /\ u.sessionUpdate = "agent_message_chunk"
                                /\ \E d \in Deltas \ {Null} : u.text = <<d>>)

\* C13: the chunks generated for the text_delta events with a string delta are,
\* one for one and in order, the deltas of those events.
C13_OneChunkPerDelta ==
  DeltaChunks = [i \in 1..Len(deltaLog) |-> Chunk(<<deltaLog[i]>>)]

\* Three string deltas, two of them equal and adjacent, and one event without a
\* string delta were handled while a prompt ran: three chunks.
C13_Witness ==
  /\ deltaLog = <<"Hi", "Hi", "!">> /\ nChildEvents = 4
  /\ pendingTurn # NoTurn
  /\ Len(DeltaChunks) = 3

\* ------------------------------------------------------------ the channel
NextChan ==
  \/ prompt /\ UNCHANGED <<twin, peer, manager, agentPrompts>>
  \/ cancel /\ UNCHANGED <<twin, peer, manager, agentPrompts>>
  \/ getState /\ UNCHANGED <<twin, peer, manager, agentPrompts>>
  \/ nChildEvents < MaxChildEvents /\ \E k \in {"blank", "malformed"} : ReadIgnoredLine(k) /\ UNCHANGED <<twin, peer, manager, agentPrompts>>
  \/ nChildEvents < MaxChildEvents
       /\ \E id \in {NoId, UnknownId} \cup (1..Len(calls)), m \in ResponseBodies : ReadResponse(id, m) /\ UNCHANGED <<twin, peer, manager, agentPrompts>>
  \/ nChildEvents < MaxChildEvents /\ \E id \in pending : WriteFail(id) /\ UNCHANGED <<twin, peer, manager, agentPrompts>>
  \/ nChildEvents < MaxChildEvents /\ \E e \in ExitCodes : Exit(e[1], e[2]) /\ UNCHANGED <<twin, peer, manager, agentPrompts>>

SpecChan == InitTurns /\ [][NextChan]_vars

\* C9: a response line whose id is that of a pending call settles that call with
\* that line and touches no other call: the request resolves with the response,
\* the wrapper returns its data when success is true and throws an error that
\* carries its error text when success is false.
C9_ResponseSettlesItsCall ==
  [][ \A id \in 1..Len(calls), m \in ResponseBodies :
        (id \in pending /\ ReadResponse(id, m)) =>
          /\ pending' = pending \ {id}
          /\ Len(calls') = Len(calls)
          /\ \A j \in 1..Len(calls) : j # id => calls'[j] = calls[j]
          /\ calls'[id].st = "resolved" /\ calls'[id].msg = m
          /\ LET o == Outcome(calls'[id]) IN
             /\ o.settled
             /\ o.ok = m.success
             /\ (m.success /\ calls[id].cmd = "get_state") => o.value = m.data
             /\ (~m.success /\ m.error # <<>>) => Includes(o.error, m.error) ]_vars

\* getState() returned the response's data, another call failed with the
\* response's error text, a third one is still pending.
C9_Witness ==
  \E i, j, k \in 1..Len(calls) :
    /\ calls[i].cmd = "get_state" /\ Outcome(calls[i]).ok /\ Outcome(calls[i]).value = "state"
    /\ calls[j].st = "resolved" /\ Includes(Outcome(calls[j]).error, <<"rate", " ", "limit">>)
    /\ k \in pending /\ calls[k].st = "pending"

\* C10: the exit of the child rejects every pending call with an error that
\* states the exit code and the signal, leaves the other calls as they are, and
\* leaves the pending map empty.
C10_ExitRejectsPending ==
  [][ (exited = <<>> /\ exited' # <<>>) =>
        /\ pending' = {}
        /\ Len(calls') = Len(calls)
        /\ \A id \in 1..Len(calls) :
             IF id \in pending
             THEN LET o == Outcome(calls'[id]) IN
                  /\ o.settled /\ ~o.ok
                  /\ o.error = <<"pi process exited (code=", exited'[1], ", signal=",
                                 exited'[2], ")">>
             ELSE calls'[id] = calls[id] ]_vars

\* The child was killed while three calls were pending: all three are rejected
\* with the exit error.
C10_Witness ==
  /\ exited = <<Null, "SIGTERM">>
  /\ pending = {}
  /\ Cardinality({i \in 1..Len(calls) :
                    calls[i].st = "rejected" /\ calls[i].err = ExitError(Null, "SIGTERM")}) = 3

\* C15: reading a blank line or a line that is not JSON settles no call, calls
\* no handler and changes nothing of the channel or the session, so the lines
\* read after it find the state they would have found without it.
C15_IgnoredLineChangesNothing ==
  [][ \A k \in {"blank", "malformed"} :
        ReadIgnoredLine(k) => UNCHANGED <<sessionVars, procVars, file, got>> ]_vars

\* Three lines were read with two calls pending: two of them left no trace,
\* the third settled getState() with its data.
C15_Witness ==
  /\ nChildEvents = 3 /\ exited = <<>> /\ Len(calls) = 2
  /\ got = [h \in Handlers |-> <<>>]
  /\ \E i, j \in 1..Len(calls) :
       /\ calls[i].cmd = "get_state" /\ Outcome(calls[i]).value = "state"
       /\ calls[j].st = "pending" /\ j \in pending

\* C17: a write error rejects the call with that error and removes its entry
\* from the pending map; no other call is touched, and nothing that happens
\* later (a response with the same id, the exit of the child) changes the call.
C17_WriteErrorRejects ==
  [][ \A id \in 1..Len(calls) :
        /\ (id \in pending /\ WriteFail(id)) =>
              /\ Outcome(calls'[id]) =
                   [settled |-> TRUE, ok |-> FALSE, value |-> Null, error |-> WriteError]
              /\ pending' = pending \ {id}
              /\ \A j \in 1..Len(calls) : j # id => calls'[j] = calls[j]
        /\ (calls[id].st = "rejected" /\ calls[id].err = WriteError) =>
              /\ calls'[id] = calls[id]
              /\ id \notin pending' ]_vars

\* A call failed on its write; afterwards a line was handed to the handlers as
\* an event (a response finds no entry for the id) and the child exited, which
\* rejected another call: the first call still carries the write error.
C17_Witness ==
  /\ nChildEvents = 3 /\ exited # <<>> /\ Len(got[SessionHandler]) = 1
  /\ \E i, j \in 1..Len(calls) :
       /\ calls[i].st = "rejected" /\ calls[i].err = WriteError
       /\ calls[j].st = "rejected" /\ calls[j].err = ExitError(exited[1], exited[2])

\* ------------------------------------------------------- the subscriptions
NextSub ==
  \/ \E h \in OtherHandlers : onEvent(h) /\ UNCHANGED <<twin, peer, manager, agentPrompts>>
  \/ \E k \in 2..Len(subs) : Unsubscribe(k) /\ UNCHANGED <<twin, peer, manager, agentPrompts>>
  \/ nChildEvents < MaxSubEvents /\ OnOtherEvent /\ UNCHANGED <<twin, peer, manager, agentPrompts>>
  \/ nChildEvents < MaxSubEvents /\ \E k \in {"blank", "malformed"} : ReadIgnoredLine(k) /\ UNCHANGED <<twin, peer, manager, agentPrompts>>
  \/ nChildEvents < MaxSubEvents /\ \E m \in ResponseBodies : ReadResponse(NoId, m) /\ UNCHANGED <<twin, peer, manager, agentPrompts>>

SpecSub == InitTurns /\ [][NextSub]_vars

\* The subscriptions of handler h that were made and not unsubscribed.
Live(ss, h) == Cardinality({k \in 1..Len(ss) : ss[k].h = h /\ ss[k].live})

\* C16: every onEvent() call adds one subscription, an unsubscribe function
\* removes its own subscription and no other (a repeated call removes nothing
\* more), and an event is handed once to every subscription in place.
C16_Subscriptions ==
  [][ /\ \A h \in Handlers : Count(eventHandlers', h) = Live(subs', h)
      /\ OnOtherEvent => \A h \in Handlers : Len(got'[h]) = Len(got[h]) + Live(subs, h) ]_vars

\* ---------------------------------------------------------- the translator
InitTool == Init /\ startupInfo = Null

\* tool_execution_start events: the edit tool with and without a path, the
\* write tool, and bash
StartInputs == {<<"edit", "a.txt">>, <<"edit", Null>>, <<"write", "a.txt">>, <<"bash", Null>>}

\* tool_execution_end events: <<isError, result>>
EndInputs == {<<FALSE, Result(<<"ok">>)>>, <<FALSE, NoResult>>, <<TRUE, Result(<<"ok">>)>>}

NextTool ==
  \/ nChildEvents < MaxToolEvents
       /\ \E ty \in {"toolcall_start", "toolcall_delta", "toolcall_end"}, id \in ToolIds \cup {Null} :
            OnToolcall(ty, id, "edit", "args") /\ UNCHANGED <<twin, peer, manager, agentPrompts>>
  \/ nChildEvents < MaxToolEvents
       /\ \E id \in ToolIds, a \in StartInputs : OnToolExecutionStart(id, a[1], a[2]) /\ UNCHANGED <<twin, peer, manager, agentPrompts>>
  \/ nChildEvents < MaxToolEvents
       /\ \E id \in ToolIds \cup {Null} : OnToolExecutionUpdate(id, Result(<<"running">>)) /\ UNCHANGED <<twin, peer, manager, agentPrompts>>
  \/ nChildEvents < MaxToolEvents
       /\ \E id \in ToolIds \cup {Null}, e \in EndInputs : OnToolExecutionEnd(id, e[1], e[2]) /\ UNCHANGED <<twin, peer, manager, agentPrompts>>
  \/ nChildEvents < MaxToolEvents /\ \E d \in Deltas : OnTextDelta(d) /\ UNCHANGED <<twin, peer, manager, agentPrompts>>
  \/ nChildEvents < MaxToolEvents /\ OnAgentStart /\ UNCHANGED <<twin, peer, manager, agentPrompts>>
  \/ \E c \in Contents : ChildWritesFile(c) /\ UNCHANGED <<twin, peer, manager, agentPrompts>>

SpecTool == InitTool /\ [][NextTool]_vars

Rank(status) ==
  CASE status = "pending" -> 0 [] status = "in_progress" -> 1 [] OTHER -> 2

\* C7: once a tool_execution_start was handled for an id, no step emits a
\* notification with status pending for that id.
C7_NoPendingAfterStart ==
  [][ \A i \in (Len(updates) + 1)..Len(updates') :
        updates'[i].status = "pending" => updates'[i].toolCallId \notin started ]_vars

\* C8: the statuses of the notifications emitted for one id never decrease.
C8_StatusMonotonic ==
  \A i, j \in 1..Len(updates) :
    (i < j /\ updates[i].toolCallId # Null /\ updates[i].toolCallId = updates[j].toolCallId)
      => Rank(updates[i].status) <= Rank(updates[j].status)

\* The step handles a tool_execution_end that generates a completion notification.
Completes ==
  /\ Len(updates') = Len(updates) + 1
  /\ updates'[Len(updates')].status \in {"completed", "failed"}

HasDiff(u) == \E k \in 1..Len(u.content) : u.content[k].type = "diff"

\* C14: the completion notification has a diff block exactly when the outcome
\* is not an error, a snapshot is held for the id, and the file has a text at
\* the end event that differs from the snapshot's; the block is then the first
\* one and carries the snapshot's path and text and the file's text; the rest
\* of the content is the plain-text result, if any.
C14_DiffIffChanged ==
  [][ Completes =>
        LET u == updates'[Len(updates')]
            snap == editSnapshots[u.toolCallId]
            text == TextContent(toolResultToText(u.rawOutput))
        IN /\ HasDiff(u) <=> /\ u.status = "completed"
                              /\ snap # NoSnapshot
                              /\ file # Missing /\ file # snap.oldText
           /\ IF HasDiff(u)
              THEN u.content = <<DiffBlock(snap.path, snap.oldText, file)>> \o text
              ELSE u.content = text ]_vars

\* An edit of a.txt changed "before\n" into "after\n": the completion of t1
\* carries the diff and the result text; a second edit of a.txt left the file
\* as it was: the completion of t2 carries the text only.
C14_Witness ==
  \E i, j, k \in 1..Len(updates) :
    /\ i < j /\ j < k
    /\ updates[i].toolCallId = "t1" /\ updates[i].status = "completed"
    /\ updates[i].content = <<DiffBlock("a.txt", "before\n", "after\n"), TextBlock(<<"ok">>)>>
    /\ updates[j] = ToolCall("t2", "edit", "edit", "in_progress", "a.txt")
    /\ updates[k].toolCallId = "t2" /\ updates[k].status = "completed"
    /\ updates[k].content = <<TextBlock(<<"ok">>)>>
    /\ file = "after\n"

\* ------------------------------------------------- two runs, one with cancel()
\* The second run (twin) gets the prompt() calls and the events of the first at
\* the same moments, and never a cancel(): its cancellation flag is never set.
\* Each Tw operator is the handler of the same name applied to the twin.
TwStartTurn(s, t, ups, q, ts) ==
  [s EXCEPT !.pendingTurn = t, !.turnQueue = q, !.updates = Append(ups, Info(Len(q), TRUE)),
            !.turnState = [ts EXCEPT ![t] = "active"]]

TwPrompt(s) ==
  LET t == nPrompts + 1 IN
  IF TurnRunning(s.pendingTurn)
  THEN LET q == Append(s.turnQueue, t) IN
       [s EXCEPT !.turnQueue = q,
                 !.updates = @ \o <<Chunk(QueuedText(Len(q))), Info(Len(q), TRUE)>>,
                 !.turnState = [@ EXCEPT ![t] = "queued"]]
  ELSE TwStartTurn(s, t, s.updates, s.turnQueue, s.turnState)

TwTextDelta(s, delta) ==
  IF delta # Null THEN [s EXCEPT !.updates = Append(@, Chunk(<<delta>>))] ELSE s

TwAgentEnd(s) == [s EXCEPT !.conts = Append(@, Len(s.updates))]

TwFlushed(s) == s.conts # <<>> /\ s.delivered >= Head(s.conts)

TwAgentEndFlushed(s) ==
  LET ts == Settle(s.turnState, s.pendingTurn, StopReasonOnAgentEnd(FALSE))
      s1 == [s EXCEPT !.conts = Tail(@)]
  IN IF s.turnQueue # <<>>
     THEN LET sh == shift(s.turnQueue) IN
          TwStartTurn(s1, sh.next, Append(s.updates, Chunk(StartingText(Len(sh.rest)))), sh.rest, ts)
     ELSE [s1 EXCEPT !.pendingTurn = NoTurn, !.turnState = ts,
                     !.updates = Append(@, Info(0, FALSE))]

\* conn.sessionUpdate of the twin's update in flight settles.
TwDeliver ==
  /\ twin.delivered < Len(twin.updates)
  /\ twin' = [twin EXCEPT !.delivered = @ + 1]
  /\ UNCHANGED <<sessionVars, procVars, file, histVars, peer, manager, agentPrompts>>

NextTwin ==
  \/ prompt /\ twin' = TwPrompt(twin) /\ UNCHANGED <<peer, manager, agentPrompts>>
  \/ cancel /\ UNCHANGED <<twin, peer, manager, agentPrompts>>
  \/ Deliver /\ UNCHANGED <<twin, peer, manager, agentPrompts>>
  \/ TwDeliver
  \/ AgentEndFlushed /\ TwFlushed(twin) /\ twin' = TwAgentEndFlushed(twin) /\ UNCHANGED <<peer, manager, agentPrompts>>
  \/ nChildEvents < MaxTwinEvents
       /\ \E d \in Deltas : OnTextDelta(d) /\ twin' = TwTextDelta(twin, d) /\ UNCHANGED <<peer, manager, agentPrompts>>
  \/ nChildEvents < MaxTwinEvents /\ OnTurnEnd /\ UNCHANGED <<twin, peer, manager, agentPrompts>>
  \/ nChildEvents < MaxTwinEvents /\ OnAgentEnd /\ twin' = TwAgentEnd(twin) /\ UNCHANGED <<peer, manager, agentPrompts>>

SpecTwin == InitTurns /\ [][NextTwin]_vars

\* The two runs have generated the same notifications and hold the same turns,
\* and a turn has resolved in both or in none, with the same stop reason unless
\* the run with cancel() says 'cancelled'.
SameButStopReason ==
  /\ updates = twin.updates
  /\ pendingTurn = twin.pendingTurn /\ turnQueue = twin.turnQueue
  /\ \A t \in Turns :
       \/ turnState[t] = twin.turnState[t]
       \/ turnState[t] = "cancelled" /\ twin.turnState[t] \in StopReasons

\* C20 as stated: the run with cancel() and the run without it generate the
\* same notifications and differ only in stop reasons.
C20_AsStated == SameButStopReason

\* C20 (amended): that holds when no turn was queued at the cancel(); a
\* cancel() that finds queued turns resolves them and generates the notice
\* "Cleared queued prompts." and a session info, which the other run lacks.
C20_CancelWithEmptyQueue ==
  /\ drained = {} => SameButStopReason
  /\ drained # {} => /\ Chunk(ClearedText) \in Range(updates)
                     /\ Chunk(ClearedText) \notin Range(twin.updates)

\* After cancel() with nothing queued, a text delta was translated and the
\* running turn resolved 'cancelled' where the other run says 'end_turn'.
C20_Witness ==
  /\ nCancels = 1 /\ drained = {}
  /\ turnState[1] = "cancelled" /\ twin.turnState[1] = "end_turn"
  /\ Chunk(<<"Hi">>) \in Range(updates)
  /\ cancelRequested = TRUE
  /\ updates = twin.updates /\ Len(updates) >= 3

\* ------------------------------------------------------------ two sessions
\* The variables above are session A with its channel; peer is session B, made
\* by a second SessionManager.create().
Sessions == {"A", "B"}

\* (variant: every session is handed the same channel)
spawnShared(s) == "A"

\* create() awaits PiRpcProcess.spawn() for each session: a new child and a new
\* PiRpcProcess, here named after the session it is made for.
spawn(s) == s

\* The sessions whose constructor subscribed its handlePiEvent on channel p.
Subscribed(p) == {s \in Sessions : spawn(s) = p}

\* this.proc.pending of session B
PeerPending == IF spawn("B") = spawn("A") THEN pending ELSE peer.pending

\* The events of the child that both sessions are given the chance to see.
PairEvents ==
  {[type |-> "agent_end", id |-> Null]}
  \cup {[type |-> ty, id |-> id] : ty \in {"tool_execution_start", "tool_execution_end"},
                                   id \in {"t1"}}

\* handlePiEvent of the session record s: an edit of a.txt that starts, the
\* same that ends without error and without result, agent_end.
Handle(s, ev) ==
  CASE ev.type = "agent_end" -> [s EXCEPT !.conts = Append(@, Len(s.updates))]
    [] ev.type = "tool_execution_start" ->
         [s EXCEPT !.editSnapshots[ev.id] =
                      IF file # Missing THEN [path |-> "a.txt", oldText |-> file] ELSE @,
                   !.currentToolCalls[ev.id] = "in_progress",
                   !.updates = Append(@, IF s.currentToolCalls[ev.id] = Absent
                                         THEN ToolCall(ev.id, "edit", "edit", "in_progress", "a.txt")
                                         ELSE ToolCallUpdate(ev.id, "in_progress", "a.txt", <<>>, NoResult))]
    [] ev.type = "tool_execution_end" ->
         [s EXCEPT !.updates = Append(@, ToolCallUpdate(ev.id, "completed", Null,
                                           EndContent(s.editSnapshots[ev.id], FALSE, <<>>), NoResult)),
                   !.currentToolCalls[ev.id] = Absent,
                   !.editSnapshots[ev.id] = NoSnapshot]
    [] OTHER -> s

\* An event read on A's channel goes to the handlers subscribed there.
Seen(s, ev) == IF "B" \in Subscribed(spawn("A")) THEN Handle(s, ev) ELSE s

\* startTurn of the session record s
PeerStartTurn(s, t, ups, q, ts) ==
  [s EXCEPT !.cancelRequested = FALSE, !.pendingTurn = t, !.turnQueue = q,
            !.updates = Append(ups, Info(Len(q), TRUE)),
            !.turnState = [ts EXCEPT ![t] = "active"],
            !.pending = @ \cup {s.nCalls + 1}, !.nCalls = @ + 1]

PeerFrame == UNCHANGED <<sessionVars, procVars, file, histVars, twin, manager, agentPrompts>>

PeerPrompt ==
  /\ peer.n < MaxPeerOps
  /\ \E t \in PeerTurns :
       /\ peer.turnState[t] = "none" /\ \A u \in 1..(t - 1) : peer.turnState[u] # "none"
       /\ LET s == [peer EXCEPT !.n = @ + 1] IN
          peer' = IF TurnRunning(s.pendingTurn)
                  THEN LET q == Append(s.turnQueue, t) IN
                       [s EXCEPT !.turnQueue = q,
                                 !.updates = @ \o <<Chunk(QueuedText(Len(q))), Info(Len(q), TRUE)>>,
                                 !.turnState = [@ EXCEPT ![t] = "queued"]]
                  ELSE PeerStartTurn(s, t, s.updates, s.turnQueue, s.turnState)
  /\ PeerFrame

PeerCancel ==
  /\ peer.n < MaxPeerOps
  /\ ~peer.cancelRequested
  /\ peer' = [peer EXCEPT
                !.n = @ + 1,
                !.cancelRequested = TRUE,
                !.turnQueue = <<>>,
                !.turnState = [t \in PeerTurns |->
                                 IF t \in Range(peer.turnQueue) THEN "cancelled" ELSE @[t]],
                !.updates = IF peer.turnQueue # <<>>
                            THEN @ \o <<Chunk(ClearedText), Info(0, peer.pendingTurn # NoTurn)>>
                            ELSE @,
                !.pending = @ \cup {peer.nCalls + 1}, !.nCalls = @ + 1]
  /\ PeerFrame

\* A line of B's child: an event, or the response to B's oldest pending call.
PeerEvent(ev) ==
  /\ peer.n < MaxPeerOps
  /\ spawn("B") # spawn("A")
  /\ ~peer.exited
  /\ peer' = [Handle(peer, ev) EXCEPT !.n = @ + 1]
  /\ PeerFrame

PeerResponse ==
  /\ peer.n < MaxPeerOps
  /\ peer.pending # {}
  /\ peer' = [peer EXCEPT !.n = @ + 1,
                          !.pending = @ \ {CHOOSE i \in peer.pending : \A j \in peer.pending : i <= j}]
  /\ PeerFrame

\* B's child exits: its pending calls are rejected (abort's rejection is not
\* looked at; the prompt call's is not followed here).
PeerExit ==
  /\ peer.n < MaxPeerOps
  /\ ~peer.exited
  /\ peer' = [peer EXCEPT !.n = @ + 1, !.exited = TRUE, !.pending = {}]
  /\ PeerFrame

PeerDeliver ==
  /\ peer.delivered < Len(peer.updates)
  /\ peer' = [peer EXCEPT !.delivered = @ + 1]
  /\ PeerFrame

PeerAgentEndFlushed ==
  /\ peer.conts # <<>>
  /\ peer.delivered >= Head(peer.conts)
  /\ LET ts == Settle(peer.turnState, peer.pendingTurn, StopReasonOnAgentEnd(peer.cancelRequested))
         s1 == [peer EXCEPT !.conts = Tail(@)]
     IN peer' = IF peer.turnQueue # <<>>
                THEN LET sh == shift(peer.turnQueue) IN
                     PeerStartTurn(s1, sh.next,
                                   Append(peer.updates, Chunk(StartingText(Len(sh.rest)))), sh.rest, ts)
                ELSE [s1 EXCEPT !.pendingTurn = NoTurn, !.turnState = ts,
                                !.updates = Append(@, Info(0, FALSE))]
  /\ PeerFrame

InitPair == Init /\ startupInfo = Null /\ file = "before\n"

AgentEndEvent == [type |-> "agent_end", id |-> Null]

NextPair ==
  \/ nPrompts < MaxPairPrompts /\ prompt /\ UNCHANGED <<twin, peer, manager, agentPrompts>>
  \/ cancel /\ UNCHANGED <<twin, peer, manager, agentPrompts>>
  \/ Deliver /\ UNCHANGED <<twin, peer, manager, agentPrompts>>
  \/ AgentEndFlushed /\ UNCHANGED <<twin, peer, manager, agentPrompts>>
  \/ PromptCatch /\ UNCHANGED <<twin, peer, manager, agentPrompts>>
  \/ PromptFailureFlushed /\ UNCHANGED <<twin, peer, manager, agentPrompts>>
  \/ nChildEvents < MaxPairEvents
       /\ \E id \in 1..Len(calls), m \in TurnBodies : ReadResponse(id, m) /\ UNCHANGED <<twin, peer, manager, agentPrompts>>
  \/ nChildEvents < MaxPairEvents /\ Exit("1", Null) /\ UNCHANGED <<twin, peer, manager, agentPrompts>>
  \/ nChildEvents < MaxPairEvents /\ OnAgentEnd
       /\ peer' = Seen(peer, AgentEndEvent) /\ UNCHANGED <<twin, manager, agentPrompts>>
  \/ nChildEvents < MaxPairEvents /\ OnToolExecutionStart("t1", "edit", "a.txt")
       /\ peer' = Seen(peer, [type |-> "tool_execution_start", id |-> "t1"]) /\ UNCHANGED <<twin, manager, agentPrompts>>
  \/ nChildEvents < MaxPairEvents /\ OnToolExecutionEnd("t1", FALSE, NoResult)
       /\ peer' = Seen(peer, [type |-> "tool_execution_end", id |-> "t1"]) /\ UNCHANGED <<twin, manager, agentPrompts>>
  \/ PeerPrompt
  \/ PeerCancel
  \/ \E ev \in PairEvents : PeerEvent(ev)
  \/ PeerResponse
  \/ PeerExit
  \/ PeerDeliver
  \/ PeerAgentEndFlushed

SpecPair == InitPair /\ [][NextPair]_vars

\* A step of session A or of its channel: a call, a line, the exit, a
\* delivery or a continuation.
AStep == <<sessionVars, procVars, histVars>>' # <<sessionVars, procVars, histVars>>

\* C21: a step of session A or of A's channel leaves session B's Active turn,
\* queue, cancellation flag, tool-call records, edit snapshots, pending calls
\* and emission chain as they are.
C21_SessionsIndependent ==
  [][ AStep =>
        /\ peer'.pendingTurn = peer.pendingTurn /\ peer'.turnState = peer.turnState
        /\ peer'.turnQueue = peer.turnQueue
        /\ peer'.cancelRequested = peer.cancelRequested
        /\ peer'.currentToolCalls = peer.currentToolCalls
        /\ peer'.editSnapshots = peer.editSnapshots
        /\ PeerPending' = PeerPending
        /\ peer'.updates = peer.updates /\ peer'.delivered = peer.delivered
        /\ peer'.conts = peer.conts ]_vars

\* B has an Active turn, a queued one, a tool-call record, a snapshot, a
\* pending call and an update not yet delivered, while A has had a prompt, a
\* cancel, and the start and the end of a tool call with the same id.
C21_Witness ==
  /\ peer.pendingTurn = 1 /\ peer.turnQueue = <<2>>
  /\ peer.currentToolCalls["t1"] = "in_progress"
  /\ peer.editSnapshots["t1"] = [path |-> "a.txt", oldText |-> "before\n"]
  /\ peer.pending # {} /\ peer.delivered < Len(peer.updates)
  /\ nPrompts = 1 /\ nCancels = 1 /\ nChildEvents = 2
  /\ started = {"t1"} /\ currentToolCalls["t1"] = Absent
  /\ editSnapshots["t1"] = NoSnapshot

\* ---------------------------------------------------- tool calls within turns
NextToolTurn ==
  \/ prompt /\ UNCHANGED <<twin, peer, manager, agentPrompts>>
  \/ cancel /\ UNCHANGED <<twin, peer, manager, agentPrompts>>
  \/ Deliver /\ UNCHANGED <<twin, peer, manager, agentPrompts>>
  \/ AgentEndFlushed /\ UNCHANGED <<twin, peer, manager, agentPrompts>>
  \/ nChildEvents < MaxToolTurnEvents
       /\ \E id \in ToolIds : OnToolExecutionStart(id, "bash", Null) /\ UNCHANGED <<twin, peer, manager, agentPrompts>>
  \/ nChildEvents < MaxToolTurnEvents
       /\ \E id \in ToolIds \cup {Null}, e \in EndInputs :
            OnToolExecutionEnd(id, e[1], e[2]) /\ UNCHANGED <<twin, peer, manager, agentPrompts>>
  \/ nChildEvents < MaxToolTurnEvents /\ OnAgentEnd /\ UNCHANGED <<twin, peer, manager, agentPrompts>>

SpecToolTurn == InitTurns /\ [][NextToolTurn]_vars

\* C22: a tool_execution_end for an id generates one tool_call_update for that
\* id, with status failed when isError is set and completed otherwise, removes
\* the id's tool-call record, and changes nothing of the turn controller: the
\* Active turn, the queue, the flag, the futures and the pending continuations.
C22_ToolErrorKeepsTurn ==
  [][ \A id \in ToolIds, e \in EndInputs :
        OnToolExecutionEnd(id, e[1], e[2]) =>
          /\ Len(updates') = Len(updates) + 1
          /\ LET u == updates'[Len(updates')] IN
             /\ u.sessionUpdate = "tool_call_update" /\ u.toolCallId = id
             /\ u.status = (IF e[1] THEN "failed" ELSE "completed")
          /\ currentToolCalls'[id] = Absent
          /\ UNCHANGED <<turnVars, conts, failq>> ]_vars

\* With a turn queued behind the Active one, a tool of the Active turn failed;
\* the turn went on, ended on its agent_end 'end_turn', and the queued turn runs.
C22_Witness ==
  /\ \E i \in 1..Len(updates) :
       /\ updates[i].status = "failed" /\ updates[i].toolCallId = "t1"
       /\ \E j \in 1..(i - 1) : updates[j] = ToolCall("t1", "bash", "other", "in_progress", Null)
       /\ \E j \in (i + 1)..Len(updates) : updates[j] = Chunk(StartingText(0))
  /\ turnState[1] = "end_turn" /\ resolvedBy[1] = "agent_end"
  /\ pendingTurn = 2 /\ currentToolCalls["t1"] = Absent

\* -------------------------------------------------------- SessionManager.create
InternalErrorCode == -32603

\* What a create() call gives its caller: a session, or a thrown error.
Created(id) == [kind |-> "session", code |-> 0, message |-> <<>>, data |-> Null, sessionId |-> id]

Thrown(kind, code, message, data) ==
  [kind |-> kind, code |-> code, message |-> message, data |-> data, sessionId |-> Null]

\* PiRpcProcess.spawn: the channel, a spawn error that carries the system
\* error code, or another error.
SpawnErrorCodes == {"ENOENT", "EACCES"}

PiRpcSpawnError(code) ==
  Thrown("PiRpcSpawnError", 0, <<"pi ", "executable not found", " (", code, ")">>, code)

SpawnOutcomes ==
  {Created(Null)} \cup {PiRpcSpawnError(c) : c \in SpawnErrorCodes}
  \cup {Thrown("Error", 0, <<"spawn failed">>, Null)}

\* proc.getState() in create(): the child's sessionId, a state without one, or
\* a failed command (state = null).
StateOutcomes == {"s1", "s2", Null, "failed"}

RequestErrorInternal(data, message) == Thrown("RequestError", InternalErrorCode, message, data)

\* (variant: the spawn error is rethrown as it is)
onSpawnFailureRethrow(e) == e

\* catch (e): a PiRpcSpawnError becomes RequestError.internalError({code}, message)
onSpawnFailure(e) ==
  IF e.kind = "PiRpcSpawnError" THEN RequestErrorInternal(e.data, e.message) ELSE e

\* typeof state?.sessionId === 'string' ? state.sessionId : crypto.randomUUID()
SessionIdOf(state, n) == IF state \in {"s1", "s2"} THEN state ELSE "uuid" \o Str(n)

create(sp, state) ==
  /\ Len(manager.log) < MaxCreates
  /\ manager' =
       IF sp.kind # "session"
       THEN [manager EXCEPT !.log = Append(@, onSpawnFailure(sp))]
       ELSE LET id == SessionIdOf(state, Len(manager.log) + 1) IN
            [sessions |-> manager.sessions \cup {id}, log |-> Append(manager.log, Created(id))]
  /\ UNCHANGED <<sessionVars, procVars, file, histVars, twin, peer, agentPrompts>>

NextCreate == \E sp \in SpawnOutcomes, st \in StateOutcomes : create(sp, st)

SpecCreate == InitTurns /\ [][NextCreate]_vars

PromptInputs ==
  {[cmd |-> c, arg |-> a, attachments |-> 0] :
     c \in {"steering", "follow-up"}, a \in {"", "all", "nope"}}
  \cup {[cmd |-> "steering", arg |-> "all", attachments |-> 1],
        [cmd |-> "fix", arg |-> "", attachments |-> 0],
        [cmd |-> Null, arg |-> "", attachments |-> 0]}

BuiltinCommands == {"steering", "follow-up"}

\* (variant: nothing is handled by the adapter)
HandledByAdapterNever(in) == FALSE

\* attachments.length === 0 && message.trimStart().startsWith('/'), and cmd is
\* one of the names the block has a branch for.
HandledByAdapter(in) == in.attachments = 0 /\ in.cmd \in BuiltinCommands

Setter(cmd) == IF cmd = "steering" THEN "set_steering_mode" ELSE "set_follow_up_mode"

ModeTitle(cmd) == IF cmd = "steering" THEN "Steering mode" ELSE "Follow-up mode"

AgentCall(in, st, call) ==
  [in |-> in, st |-> st, call |-> call, result |-> Null, said |-> <<>>]

\* PiAcpAgent.prompt, up to its first await.
agentPrompt(in) ==
  /\ Len(agentPrompts) < MaxAgentPrompts
  /\ IF HandledByAdapter(in)
     THEN LET r == Requested(calls, pending, "get_state", NoTurn) IN
          /\ calls' = r.calls
          /\ pending' = r.pending
          /\ agentPrompts' = Append(agentPrompts, AgentCall(in, "state", Len(calls) + 1))
          /\ UNCHANGED <<sessionVars, failq, exited, subVars, file, histVars>>
     ELSE /\ prompt
          /\ agentPrompts' = Append(agentPrompts, AgentCall(in, "session", NoId))
  /\ UNCHANGED <<twin, peer, manager>>

\* The built-in branch goes on when the command it awaits has settled: a
\* failed command throws out of prompt(); the state read, the mode is
\* reported, or the usage, or the setter is sent; the setter done, the new
\* mode is reported.  Each report is followed by return { stopReason: 'end_turn' }.
builtinResume(k) ==
  /\ k \in 1..Len(agentPrompts)
  /\ agentPrompts[k].st \in {"state", "set"}
  /\ LET e == agentPrompts[k]
         o == Outcome(calls[e.call])
         current == IF o.value = Null THEN "unknown" ELSE "all"
         done(txt) == [agentPrompts EXCEPT ![k].st = "done", ![k].result = "end_turn", ![k].said = txt]
     IN /\ o.settled
        /\ IF ~o.ok
           THEN /\ agentPrompts' = [agentPrompts EXCEPT ![k].st = "thrown", ![k].said = o.error]
                /\ UNCHANGED <<calls, pending>>
           ELSE IF e.st = "set"
           THEN /\ agentPrompts' = done(<<ModeTitle(e.in.cmd), " set to: ", e.in.arg>>)
                /\ UNCHANGED <<calls, pending>>
           ELSE IF e.in.arg = ""
           THEN /\ agentPrompts' = done(<<ModeTitle(e.in.cmd), ": ", current>>)
                /\ UNCHANGED <<calls, pending>>
           ELSE IF e.in.arg \notin {"all", "one-at-a-time"}
           THEN /\ agentPrompts' = done(<<"Usage: /", e.in.cmd, " all | /", e.in.cmd, " one-at-a-time">>)
                /\ UNCHANGED <<calls, pending>>
           ELSE LET r == Requested(calls, pending, Setter(e.in.cmd), NoTurn) IN
                /\ calls' = r.calls
                /\ pending' = r.pending
                /\ agentPrompts' = [agentPrompts EXCEPT ![k].st = "set", ![k].call = Len(calls) + 1]
  /\ UNCHANGED <<sessionVars, failq, exited, subVars, file, histVars, twin, peer, manager>>

NextAgent ==
  \/ \E in \in PromptInputs : agentPrompt(in)
  \/ \E k \in 1..Len(agentPrompts) : builtinResume(k)
  \/ cancel /\ UNCHANGED <<twin, peer, manager, agentPrompts>>
  \/ Deliver /\ UNCHANGED <<twin, peer, manager, agentPrompts>>
  \/ AgentEndFlushed /\ UNCHANGED <<twin, peer, manager, agentPrompts>>
  \/ nChildEvents < MaxAgentEvents
       /\ \E id \in 1..Len(calls), m \in ResponseBodies :
            ReadResponse(id, m) /\ UNCHANGED <<twin, peer, manager, agentPrompts>>
  \/ nChildEvents < MaxAgentEvents /\ OnAgentEnd /\ UNCHANGED <<twin, peer, manager, agentPrompts>>

SpecAgent == InitTurns /\ [][NextAgent]_vars

PromptCalls(cs) == Len(SelectSeq(cs, LAMBDA c : c.cmd = "prompt"))

SetterCalls(cs) == Len(SelectSeq(cs, LAMBDA c : c.cmd \in {"set_steering_mode", "set_follow_up_mode"}))

NextAbort ==
  \/ prompt /\ UNCHANGED <<twin, peer, manager, agentPrompts>>
  \/ nCancels < MaxAbortCancels /\ cancelOp /\ UNCHANGED <<twin, peer, manager, agentPrompts>>
  \/ Deliver /\ UNCHANGED <<twin, peer, manager, agentPrompts>>
  \/ AgentEndFlushed /\ UNCHANGED <<twin, peer, manager, agentPrompts>>
  \/ nChildEvents < MaxAbortEvents /\ OnAgentEnd /\ UNCHANGED <<twin, peer, manager, agentPrompts>>
  \/ nChildEvents < MaxAbortEvents /\ Exit("1", Null) /\ UNCHANGED <<twin, peer, manager, agentPrompts>>

SpecAbort == InitTurns /\ [][NextAbort]_vars

\* C26: a cancel() call appends exactly one call to the channel, an abort that
\* is pending, and when it is issued the queue is empty and the turns that were
\* queued are resolved; no other step issues an abort.
C26_CancelAbortsOnce ==
  [][ /\ nCancels' # nCancels =>
           /\ calls' = Append(calls, NewCall("abort", NoTurn))
           /\ pending' = pending \cup {Len(calls')}
           /\ turnQueue' = <<>>
           /\ \A t \in Range(turnQueue) : turnState'[t] = "cancelled"
      /\ nCancels' = nCancels =>
           \A i \in (Len(calls) + 1)..Len(calls') : calls'[i].cmd # "abort" ]_vars

\* The first cancel() came on an idle session, the second while a turn ran and
\* two were queued: two aborts were issued.
C26_Witness ==
  /\ nCancels = 2 /\ drained = {2, 3}
  /\ Len(calls) = 3
  /\ calls[1].cmd = "abort" /\ calls[2].cmd = "prompt" /\ calls[3].cmd = "abort"
  /\ turnState[1] = "active" /\ turnQueue = <<>>

\* --------------------------------------------- tool calls announced twice
\* The notifications emitted for id since its last completion notification.
SinceLastEnd(id) ==
  LET ends == {i \in 1..Len(updates) :
                 updates[i].toolCallId = id /\ updates[i].status \in {"completed", "failed"}}
      last == IF ends = {} THEN 0 ELSE CHOOSE i \in ends : \A j \in ends : j <= i
  IN {i \in (last + 1)..Len(updates) : updates[i].toolCallId = id}

\* C27: the tool_execution_start that moves a record created by a streamed
\* toolcall event from pending to in_progress emits one tool_call_update with
\* status in_progress for that id and no tool_call; no step emits a tool_call
\* for an id that has a record; and for every id that has a record exactly one
\* tool_call was emitted since the record was created.
C27_OneCreationPerRecord ==
  [][ /\ \A id \in ToolIds :
           currentToolCalls[id] = "pending" /\ currentToolCalls'[id] = "in_progress"
             => /\ id \in started'
                /\ Len(updates') = Len(updates) + 1
                /\ updates'[Len(updates')].sessionUpdate = "tool_call_update"
                /\ updates'[Len(updates')].toolCallId = id
                /\ updates'[Len(updates')].status = "in_progress"
      /\ \A i \in (Len(updates) + 1)..Len(updates') :
           updates'[i].sessionUpdate = "tool_call"
             => currentToolCalls[updates'[i].toolCallId] = Absent
      /\ \A id \in ToolIds :
           currentToolCalls'[id] # Absent
             => Cardinality({i \in SinceLastEnd(id)' :
                               updates'[i].sessionUpdate = "tool_call"}) = 1 ]_vars

\* t1 was announced while its arguments streamed (toolcall_start, then
\* toolcall_delta) and then started: one tool_call with status pending, an
\* update that keeps pending, an update with in_progress.
C27_Witness ==
  /\ Len(updates) = 3
  /\ updates[1] = ToolCall("t1", "edit", "edit", "pending", "args")
  /\ updates[2] = ToolCallUpdate("t1", "pending", "args", <<>>, NoResult)
  /\ updates[3] = ToolCallUpdate("t1", "in_progress", "a.txt", <<>>, NoResult)
  /\ currentToolCalls["t1"] = "in_progress"

\* ------------------------------------------------- the pending map, always
\* C28: the pending map holds the ids of the calls that were sent and are not
\* settled, and no other; a settled call never changes again; and a step that
\* settles a call is the reading of a response with the call's id, the failure
\* of the call's write, or the exit of the child, so that without a response
\* and without a write failure a call is pending for as long as the child runs.
C28_PendingIsUnsettled ==
  [][ /\ pending' = {i \in 1..Len(calls') : calls'[i].st = "pending"}
      /\ \A i \in 1..Len(calls) :
           /\ calls[i].st # "pending" => calls'[i] = calls[i]
           /\ (calls[i].st = "pending" /\ calls'[i].st # "pending") =>
                \/ \E m \in ResponseBodies : ReadResponse(i, m) /\ calls'[i].msg = m
                \/ WriteFail(i) /\ calls'[i].err = WriteError
                \/ \E e \in ExitCodes : Exit(e[1], e[2]) /\ calls'[i].err = ExitError(e[1], e[2])
           /\ (calls[i].st = "pending" /\ calls'[i].st = "pending") => i \in pending' ]_vars

\* Three calls were sent: the second was answered, the write of the third
\* failed, the first has had no response and is the only entry of the map
\* while the child runs.
C28_Witness ==
  /\ Len(calls) = 3 /\ exited = <<>>
  /\ calls[1].st = "pending" /\ pending = {1}
  /\ calls[2].st = "resolved" /\ calls[2].msg.present
  /\ calls[3].st = "rejected" /\ calls[3].err = WriteError

\* ------------------------------------------------ the life of a snapshot
\* C29: the step that handles the tool_execution_end of an id leaves no
\* snapshot for it, whatever the outcome, the content of the notification and
\* the state of the file; and every snapshot held belongs to an id whose
\* tool_execution_start was handled and whose record is in_progress, which is
\* the status between a tool_execution_start and the tool_execution_end.
C29_SnapshotOnlyInFlight ==
  [][ /\ Completes => editSnapshots'[updates'[Len(updates')].toolCallId] = NoSnapshot
      /\ \A id \in ToolIds :
           editSnapshots'[id] # NoSnapshot =>
             /\ id \in started'
             /\ currentToolCalls'[id] = "in_progress"
             /\ \E i \in SinceLastEnd(id)' :
                  updates'[i].status = "in_progress" /\ updates'[i].rawInput = editSnapshots'[id].path
      ]_vars

\* The edit t1 was started and failed, then the edit t2 was started on the file
\* a tool had written: t2 has a snapshot of that text, t1 has none.
C29_Witness ==
  /\ Len(updates) = 3
  /\ updates[1] = ToolCall("t1", "edit", "edit", "in_progress", "a.txt")
  /\ updates[2] = ToolCallUpdate("t1", "failed", Null, <<TextBlock(<<"ok">>)>>, Result(<<"ok">>))
  /\ updates[3] = ToolCall("t2", "edit", "edit", "in_progress", "a.txt")
  /\ editSnapshots["t1"] = NoSnapshot
  /\ editSnapshots["t2"] = [path |-> "a.txt", oldText |-> "after\n"]
  /\ file = "after\n"

\* --------------------------------------------------- which tools are snapshot
\* The step handles the tool_execution_start of id for a tool of the set
\* names, with a path, while the file can be read.
StartsReadable(id, names) ==
  \E a \in StartInputs :
    /\ a[1] \in names /\ a[2] # Null /\ file # Missing
    /\ OnToolExecutionStart(id, a[1], a[2])

\* The step handles a tool_execution_end of id that is not an error and finds
\* the file with a text other than the one the snapshot of id holds.
EndsChanged(id) ==
  /\ Completes
  /\ updates'[Len(updates')].toolCallId = id
  /\ updates'[Len(updates')].status = "completed"
  /\ editSnapshots[id] # NoSnapshot
  /\ file # Missing /\ file # editSnapshots[id].oldText

\* What C30 says of the tools in names: the start stores the snapshot under the
\* id, the snapshot stays as it is until a start or an end of the same id, and
\* the end that finds the text changed emits the diff of the two texts.
SnapshotAtStartOf(names) ==
  \A id \in ToolIds :
    /\ StartsReadable(id, names) =>
         editSnapshots'[id] = [path |-> "a.txt", oldText |-> file]
    /\ (editSnapshots[id] # NoSnapshot /\ editSnapshots'[id] # editSnapshots[id]) =>
         \/ \E a \in StartInputs : OnToolExecutionStart(id, a[1], a[2])
         \/ Completes /\ updates'[Len(updates')].toolCallId = id
    /\ EndsChanged(id) =>
         updates'[Len(updates')].content[1] =
           DiffBlock(editSnapshots[id].path, editSnapshots[id].oldText, file)

\* C30 as stated: the tools reported with kind edit.
C30_AsStated ==
  [][ SnapshotAtStartOf({n \in {"read", "write", "edit", "bash"} : toToolKind(n) = "edit"}) ]_vars

\* C30: at the tool_execution_start of a call of the tool named edit whose path
\* can be read, the snapshot {path, the file's text} is stored under the id; it
\* is held until the id is started again or ended; and the end that is not an
\* error and finds another text in the file emits a diff block of the two.
C30_SnapshotForEditTool ==
  [][ SnapshotAtStartOf({"edit"}) ]_vars

\* The edit t1 was started on "before\n" after its arguments had streamed, the
\* tool wrote "after\n", and the end of t1 carries the diff.
C30_Witness ==
  /\ Len(updates) = 3
  /\ updates[1] = ToolCall("t1", "edit", "edit", "pending", "args")
  /\ updates[2] = ToolCallUpdate("t1", "in_progress", "a.txt", <<>>, NoResult)
  /\ updates[3] = ToolCallUpdate("t1", "completed", Null,
                                 <<DiffBlock("a.txt", "before\n", "after\n"), TextBlock(<<"ok">>)>>,
                                 Result(<<"ok">>))
  /\ file = "after\n"

\* ------------------------------------------------- the order of delivery
\* The step reads a parsed line that is not a correlated response.
ReadsEventLine ==
  \/ OnOtherEvent
  \/ \E id \in {NoId, UnknownId} \cup (1..Len(calls)), m \in ResponseBodies :
       ReadResponse(id, m) /\ Correlate(id, pending) = NoId

\* C31: the step that reads a parsed line that is not a correlated response
\* hands the line once to every entry of the handler array and to nobody else,
\* no other step hands a line to a handler, and the lines a handler has been
\* called with are in the order of reading, each line later than all the
\* lines the handler has had before.
C31_DeliveredInReadingOrder ==
  [][ /\ ReadsEventLine =>
           \A h \in Handlers :
             /\ Len(got'[h]) = Len(got[h]) + Count(eventHandlers, h)
             /\ SubSeq(got'[h], 1, Len(got[h])) = got[h]
             /\ \A k \in (Len(got[h]) + 1)..Len(got'[h]) : got'[h][k] = nChildEvents'
             /\ \A k \in 1..Len(got[h]) : got[h][k] < nChildEvents'
      /\ ~ReadsEventLine => got' = got
      /\ \A h \in Handlers : \A i, j \in 1..Len(got'[h]) :
           i < j => got'[h][i] <= got'[h][j] ]_vars

\* The session's handler has had the lines 1 and 2; h1, subscribed after the
\* first line was read, and h2, subscribed twice by then, the line 2 only.
C31_Witness ==
  /\ got[SessionHandler] = <<1, 2>>
  /\ got["h1"] = <<2>>
  /\ got["h2"] = <<2, 2>>

\* ------------------------------------------------- an abort that fails
\* The step settles the abort call i with a failure.
AbortFails(i) ==
  /\ calls[i].cmd = "abort" /\ calls[i].st = "pending"
  /\ calls'[i].st # "pending" /\ ~Outcome(calls'[i]).ok

\* C32: cancel() has cleared the local state in the step that sends the abort
\* command (flag set, queue empty, the queued turns resolved 'cancelled'); the
\* step in which the abort command fails changes nothing of the session; and
\* a turn that a cancel() took from the queue stays 'cancelled'.
C32_ClearedThoughAbortFails ==
  [][ /\ nCancels' # nCancels =>
           /\ cancelRequested' /\ turnQueue' = <<>>
           /\ \A t \in Range(turnQueue) : turnState'[t] = "cancelled"
      /\ (\E i \in 1..Len(calls) : AbortFails(i)) =>
           UNCHANGED <<turnVars, toolVars, updates, conts>>
      /\ \A t \in drained' : turnState'[t] = "cancelled" ]_vars

\* cancel() came with one turn running and two queued; the abort command was
\* answered with a failure: the flag is set, the queue is empty, the two turns
\* are 'cancelled' and the first is still running.
C32_Witness ==
  /\ \E i \in 1..Len(calls) :
       calls[i].cmd = "abort" /\ calls[i].st = "resolved" /\ ~Outcome(calls[i]).ok
  /\ cancelRequested /\ turnQueue = <<>>
  /\ drained = {2, 3} /\ turnState[2] = "cancelled" /\ turnState[3] = "cancelled"
  /\ pendingTurn = 1 /\ turnState[1] = "active"

\* ------------------------------------------- a failure that comes late
\* C33: when the failure of the prompt command of turn A is processed after
\* an agent_end has resolved A and while a later turn B is the pending turn,
\* B stays the pending turn and stays unresolved.
C33_FailureResolvesOwnTurn ==
  [][ ( /\ PromptFailureFlushed
        /\ pendingTurn # NoTurn
        /\ Head(conts).turn # pendingTurn
        /\ resolvedBy[Head(conts).turn] = "agent_end" )
      => /\ pendingTurn' = pendingTurn
         /\ turnState'[pendingTurn] = "active" ]_vars

\* ------------------------------------------------- the queue and the turn
\* C34: whenever the queue is not empty a turn is pending, and every turn in
\* the queue was requested after all the turns whose prompt command has been
\* forwarded.
C34_QueueBehindActive ==
  /\ turnQueue # <<>> => pendingTurn # NoTurn
  /\ \A i \in 1..Len(Forwarded), u \in Range(turnQueue) : Forwarded[i] < u

\* ------------------------------------------------- every prompt settles
MaxSettleEvents == 3

\* Prompts, deliveries that settle or are rejected, the answers of the child to
\* prompt commands (a response, agent_end) and the continuations.
NextSettle ==
  \/ prompt /\ UNCHANGED <<twin, peer, manager, agentPrompts>>
  \/ Deliver /\ UNCHANGED <<twin, peer, manager, agentPrompts>>
  \/ DeliverFails /\ UNCHANGED <<twin, peer, manager, agentPrompts>>
  \/ AgentEndFlushed /\ UNCHANGED <<twin, peer, manager, agentPrompts>>
  \/ PromptCatch /\ UNCHANGED <<twin, peer, manager, agentPrompts>>
  \/ PromptFailureFlushed /\ UNCHANGED <<twin, peer, manager, agentPrompts>>
  \/ nChildEvents < MaxSettleEvents /\ \E id \in 1..Len(calls), m \in TurnBodies : ReadResponse(id, m) /\ UNCHANGED <<twin, peer, manager, agentPrompts>>
  \/ nChildEvents < MaxSettleEvents /\ OnAgentEnd /\ UNCHANGED <<twin, peer, manager, agentPrompts>>

\* A promise reaction that is ready runs, and a delivery settles.
SpecSettle ==
  /\ InitTurns /\ [][NextSettle]_vars
  /\ WF_vars(Deliver /\ UNCHANGED <<twin, peer, manager, agentPrompts>>)
  /\ WF_vars(AgentEndFlushed /\ UNCHANGED <<twin, peer, manager, agentPrompts>>)
  /\ WF_vars(PromptCatch /\ UNCHANGED <<twin, peer, manager, agentPrompts>>)
  /\ WF_vars(PromptFailureFlushed /\ UNCHANGED <<twin, peer, manager, agentPrompts>>)

\* The prompt command of turn t has been forwarded.
WasForwarded(t) == \E i \in 1..Len(calls) : calls[i].cmd = "prompt" /\ calls[i].turn = t

\* The prompt command of turn t has failed, or an agent_end has ended turn t.
WasAnswered(t) ==
  \/ \E i \in 1..Len(calls) :
       /\ calls[i].cmd = "prompt" /\ calls[i].turn = t
       /\ calls[i].st # "pending" /\ ~Outcome(calls[i]).ok
  \/ resolvedBy[t] = "agent_end"

\* C35: in a behaviour in which every forwarded prompt command is answered (by
\* its failure or by an agent_end that ends its turn) again and again, where
\* deliveries settle and ready continuations run, there is again and again a
\* moment when no prompt() call is unsettled.  Commands stay forwarded and
\* answered and calls stay settled, so this is: if every forwarded command is
\* eventually answered, every prompt() call eventually settles.
C35_EveryPromptSettles ==
  ([]<>(\A t \in Turns : WasForwarded(t) => WasAnswered(t)))
    => ([]<>(\A t \in Turns : ~Unsettled(turnState, t)))

\* ------------------------------------------------- the reach of a cancel()
\* cancel() was called after the prompt command of turn t was forwarded: an
\* abort call follows it in the order of the calls.
CancelledAfterStart(t) ==
  \E i, j \in 1..Len(calls) :
    i < j /\ calls[i].cmd = "prompt" /\ calls[i].turn = t /\ calls[j].cmd = "abort"

\* C36: a step that starts a turn leaves the cancellation flag cleared, and a
\* turn that was started resolves 'cancelled' only when cancel() was called
\* after its start; the other turns that are 'cancelled' are those a cancel()
\* took from the queue.
C36_CancelReach ==
  [][ /\ (pendingTurn' # pendingTurn /\ pendingTurn' # NoTurn) => ~cancelRequested'
      /\ \A t \in Turns :
           turnState'[t] = "cancelled" =>
             IF WasForwarded(t)' THEN CancelledAfterStart(t)' ELSE t \in drained' ]_vars

\* cancel() was called on the idle session, then the prompt came and ran to
\* its agent_end: it resolved 'end_turn'.
C36_Witness ==
  /\ nCancels = 1 /\ Len(calls) = 2
  /\ calls[1].cmd = "abort" /\ calls[2].cmd = "prompt" /\ calls[2].turn = 1
  /\ turnState[1] = "end_turn" /\ resolvedBy[1] = "agent_end"

\* ------------------------------------------------- the turn of an agent_end
\* A promise reaction is due: the rejection of a prompt call has not reached
\* its catch handler yet, or the chain the first continuation waits for has
\* settled.  Reactions run as microtasks, before the next call of the client,
\* line of the child or settlement of the transport is looked at.
ReactionDue == failq # <<>> \/ (conts # <<>> /\ delivered >= Head(conts).at)

NextLoop ==
  \/ ~ReactionDue /\ prompt /\ UNCHANGED <<twin, peer, manager, agentPrompts>>
  \/ ~ReactionDue /\ cancel /\ UNCHANGED <<twin, peer, manager, agentPrompts>>
  \/ ~ReactionDue /\ Deliver /\ UNCHANGED <<twin, peer, manager, agentPrompts>>
  \/ AgentEndFlushed /\ UNCHANGED <<twin, peer, manager, agentPrompts>>
  \/ PromptCatch /\ UNCHANGED <<twin, peer, manager, agentPrompts>>
  \/ PromptFailureFlushed /\ UNCHANGED <<twin, peer, manager, agentPrompts>>
  \/ ~ReactionDue /\ nChildEvents < MaxChildEvents /\ \E id \in 1..Len(calls), m \in TurnBodies : ReadResponse(id, m) /\ UNCHANGED <<twin, peer, manager, agentPrompts>>
  \/ ~ReactionDue /\ nChildEvents < MaxChildEvents /\ Exit("1", Null) /\ UNCHANGED <<twin, peer, manager, agentPrompts>>
  \/ ~ReactionDue /\ nChildEvents < MaxChildEvents /\ OnAgentEnd /\ UNCHANGED <<twin, peer, manager, agentPrompts>>

SpecLoop == InitTurns /\ [][NextLoop]_vars

\* C37: the continuation of an agent_end that was received while another turn
\* than the pending one was pending, or none, resolves no turn and starts none.
C37_AgentEndOfItsTurn ==
  [][ (AgentEndFlushed /\ Head(conts).turn # pendingTurn)
        => UNCHANGED <<pendingTurn, turnQueue, turnState, calls>> ]_vars

\* ------------------------------------------------- updates and creations
\* C38: every tool_call_update among the notifications generated has a
\* tool_call for the same id before it.
C38_UpdateAfterCreation ==
  \A j \in 1..Len(updates) :
    updates[j].sessionUpdate = "tool_call_update" =>
      \E i \in 1..(j - 1) :
        updates[i].sessionUpdate = "tool_call" /\ updates[i].toolCallId = updates[j].toolCallId

\* ---------------------------------------------------------------- C39
\* C39: a sessionUpdate delivery that fails is swallowed.  The rejection
\* changes nothing but the chain, which advances by one link as after a
\* delivery; the deliveries are attempted in generation order and none is
\* skipped, whether the ones before it failed or not; and once every update
\* generated before an agent_end has settled, rejected or not, the
\* continuation of that agent_end can run and resolve the Active turn.
C39_FailureSwallowed ==
  /\ [](/\ delivered = Len(accepted)
        /\ Len(accepted) <= Len(updates)
        /\ \A k \in 1..Len(accepted) : accepted[k] \in {k, 0 - k}
        /\ (/\ conts # <<>>
            /\ Head(conts).kind = "agent_end"
            /\ Len(accepted) >= Head(conts).at)
           => ENABLED (AgentEndFlushed /\ UNCHANGED <<twin, peer, manager, agentPrompts>>))
  /\ [][ (Rejected(accepted') # Rejected(accepted))
           => /\ accepted' = Append(accepted, 0 - (Len(accepted) + 1))
              /\ UNCHANGED <<turnVars, toolVars, updates, conts, procVars, resolvedBy>> ]_vars
  /\ [][ (AgentEndFlushed /\ pendingTurn # NoTurn /\ Head(conts).turn = pendingTurn)
           => /\ ~Unsettled(turnState', pendingTurn)
              /\ resolvedBy'[pendingTurn] = "agent_end" ]_vars

\* Every delivery before the agent_end of the Active turn was rejected, the
\* chain has settled up to that agent_end, and the continuation that resolves
\* the turn is the next one to run.
C39_Witness ==
  /\ accepted = <<0 - 1, 0 - 2>>
  /\ delivered = 2
  /\ pendingTurn = 1
  /\ turnState[1] = "active"
  /\ conts # <<>>
  /\ Head(conts) = [kind |-> "agent_end", at |-> 2, gen |-> 2, err |-> <<>>, turn |-> 1]

\* ---------------------------------------------------------------- C40
\* C40: the step that reads a response line whose id is absent, is the id of
\* no call of this channel, or is the id of a call that is no longer pending
\* (a second response among them) settles no call: the calls, the pending map
\* and the failures waiting for the session stay as they are, and so does the
\* session; and the line is handed once to every entry of the handler array,
\* as the line of any other event is.
C40_UncorrelatedResponse ==
  [][ \A id \in {NoId, UnknownId} \cup (1..Len(calls)) :
        (/\ id \in 1..Len(calls) => calls[id].st # "pending"
         /\ nChildEvents' # nChildEvents
         /\ \E m \in ResponseBodies : ReadResponse(id, m))
        => /\ calls' = calls
           /\ pending' = pending
           /\ failq' = failq
           /\ UNCHANGED sessionVars
           /\ \A h \in Handlers :
                got'[h] = got[h] \o [k \in 1..Count(eventHandlers, h) |-> nChildEvents'] ]_vars

\* Line 1, a response, was read while call 1 was pending and settled nothing;
\* line 2 settled call 1; line 3, a response again, was handed to the session
\* while call 1 was settled and call 2 pending: both keep what they had.
C40_Witness ==
  /\ Len(calls) = 2
  /\ calls[1].st = "resolved" /\ calls[1].msg.success /\ calls[1].msg.data = "state"
  /\ calls[2].st = "pending" /\ pending = {2}
  /\ nChildEvents = 3
  /\ got[SessionHandler] = <<1, 3>>
====
